---- MODULE Spec2Model ----
(***************************************************************************)
(* A model of reportHanter's data processors (src/reporthanter/processors  *)
(* and src/reporthanter/core/base.py), configuration (core/config.py,      *)
(* visualization/config.py) and report generation (report/).               *)
(*                                                                         *)
(* The scenarios share the module, each with a specification of its own:   *)
(*   SpecFilter   - KrakenProcessor.filter_data / KaijuProcessor.filter_data*)
(*                  called on a table, then called again on the table it   *)
(*                  returned, with the same parameters;                    *)
(*   SpecKraken   - KrakenProcessor.process on a Kraken report file;       *)
(*   SpecFlagstat - FlagstatProcessor.process on a flagstat file;          *)
(*   SpecBlast    - BlastProcessor.run_blastn on a table of contigs;       *)
(*   SpecFastp    - FastpProcessor.process on a fastp JSON document;       *)
(*   SpecValidation - validate_input and process of each of the five       *)
(*                  processors on a missing path, a directory, an empty    *)
(*                  file or a file of the processor's format.              *)
(*   SpecConfig   - DefaultConfig constructed with and without user config *)
(*                  files, then get or the raw classification section      *)
(*                  called on one of the instances;                        *)
(*   SpecReport   - ReportGenerator.generate_report, section by section;   *)
(*   SpecVisualization - VisualizationConfig to_dict, from_dict, presets   *)
(*                  and save_config.                                       *)
(*                                                                         *)
(* Representation.                                                         *)
(*   - A DataFrame is a sequence of rows; a row is a record of its cells   *)
(*     plus idx, its index label (read_csv gives a RangeIndex 0..n-1).     *)
(*   - A fraction is an integer count of thousandths (0.105 is 105); a     *)
(*     percentage in a Kraken file is in the same unit (10.5 is 10500), so *)
(*     that "/ 100" is a real division.  NaN is the missing number.        *)
(*   - A string cell (name, domain, taxon_name) is a sequence of tokens,   *)
(*     a token being the blank " " or a word; NA_str is the missing string.*)
(*   - The float64 arithmetic of the flagstat and fastp processors is      *)
(*     modelled bit for bit (53-bit significands, round to nearest even).  *)
(***************************************************************************)
EXTENDS Integers, Sequences, FiniteSets, TLC

VARIABLES
    scenario,       \* which scenario this behaviour runs
    pc,             \* position of the scenario's caller
    \* -- filter_data scenario
    processor,      \* "kraken" or "kaiju"
    data,           \* the DataFrame passed to filter_data
    level,          \* filter_data parameters
    cutoff,
    max_entries,
    virus_only,
    result,         \* what the first call returned or raised
    result2,        \* what the call on result.filtered_df returned
    \* -- process scenarios
    path,           \* the file the processor is given
    processed,      \* what process returned or raised
    \* -- run_blastn scenario
    contigs_df,     \* the table read from the contigs file
    row,            \* the row of contigs_df the loop is at
    matches,        \* the match texts collected so far
    temp_file,      \* the temporary query file: absent, or its content
    invocations,    \* the external invocations, in the order they started
    running,        \* the rows whose invocation has not completed yet
    \* -- DefaultConfig and report scenarios
    DEFAULT_CONFIG, \* the class attribute DefaultConfig.DEFAULT_CONFIG
    configs,        \* the DefaultConfig instances constructed so far
    calls,          \* the filter_data calls a report section has made
    arguments,      \* the arguments of generate_report
    generated,      \* the report sections generated so far
    \* -- VisualizationConfig scenario
    config,         \* a VisualizationConfig
    config_dict,    \* what config.to_dict() gave
    restored        \* what VisualizationConfig.from_dict(config_dict) gave

vars == <<scenario, pc, processor, data, level, cutoff, max_entries,
          virus_only, result, result2, path, processed,
          contigs_df, row, matches, temp_file, invocations, running,
          DEFAULT_CONFIG, configs, calls, arguments, generated,
          config, config_dict, restored>>

reportVars == <<DEFAULT_CONFIG, configs, calls, arguments, generated,
                config, config_dict, restored>>

blastVars == <<contigs_df, row, matches, temp_file, invocations, running>>

(***************************************************************************)
(* Bounds of the model.                                                    *)
(***************************************************************************)
MaxRows == 3
MaxEntries == 2

(***************************************************************************)
(* Missing values.                                                         *)
(***************************************************************************)
NaN == -1
NA_str == <<"<NA>">>
None == [none |-> TRUE]

Viruses == <<"Viruses">>
Unclassified == <<"unclassified">>

(***************************************************************************)
(* pandas helpers.                                                         *)
(***************************************************************************)
\* x >= c, where the code has x > c.
GtOrEqual(x, c) == x # NaN /\ x >= c

\* x > c on a float column: a NaN compares False.
Gt(x, c) == x # NaN /\ x > c

\* The rows of a frame, as a set.
Rows(frame) == {frame[i] : i \in DOMAIN frame}

\* The boolean Series that is True at the rows of frame in true_rows, keyed by
\* index label.
Mask(frame, true_rows) ==
    [l \in {r.idx : r \in Rows(frame)} |->
        (CHOOSE r \in Rows(frame) : r.idx = l) \in true_rows]

\* frame.loc[mask]: the boolean Series is aligned to the frame by label.
Loc(frame, mask) == SelectSeq(frame, LAMBDA r : mask[r.idx])

\* frame.head(n), n >= 0.
DfHead(frame, n) == SubSeq(frame, 1, IF n < Len(frame) THEN n ELSE Len(frame))

\* frame.drop(columns=[c], errors='ignore')
DropColumn(frame, c) ==
    [i \in DOMAIN frame |-> [f \in (DOMAIN frame[i]) \ {c} |-> frame[i][f]]]

Perms(n) == {p \in [1..n -> 1..n] : \A i, j \in 1..n : p[i] = p[j] => i = j}

\* frame.sort_values("percent", ascending=False): the rows with a number, by
\* percent descending, then the NaN rows in their original order.  The default
\* kind is quicksort, which is not stable: the order of rows with equal percent
\* is whatever the NumPy build produces, so every such order is an outcome.
SortValuesDesc(frame) ==
    LET non_nans == SelectSeq(frame, LAMBDA r : r.percent # NaN)
        nans == SelectSeq(frame, LAMBDA r : r.percent = NaN)
        n == Len(non_nans)
    IN  { [i \in 1..Len(frame) |->
              IF i <= n THEN non_nans[p[i]] ELSE nans[i - n]] :
          p \in {q \in Perms(n) :
                    \A i \in 1..(n - 1) :
                        non_nans[q[i]].percent >= non_nans[q[i + 1]].percent} }

(***************************************************************************)
(* KrakenProcessor.filter_data                                             *)
(***************************************************************************)
TAXONOMY_LEVELS ==
    [domain |-> "D", phylum |-> "P", class |-> "K", order |-> "O",
     family |-> "F", genus |-> "G", species |-> "S"]

\* The unclassified fraction without the fallback for a table with no
\* unclassified row: the missing number.
KrakenUnclassifiedPctNoFallback(df) ==
    LET unclassified_rows ==
            Loc(df, Mask(df, {r \in Rows(df) : r.domain = Unclassified}))
    IN  IF Len(unclassified_rows) > 0 THEN unclassified_rows[1].percent ELSE NaN

KrakenUnclassifiedPct(df) ==
    LET unclassified_rows ==
            Loc(df, Mask(df, {r \in Rows(df) : r.domain = Unclassified}))
    IN  IF Len(unclassified_rows) > 0 THEN unclassified_rows[1].percent ELSE 0

\* filter_data with virus_only ignored.
KrakenVirusFilterIgnored(sorted, virus) == sorted

\* The frame before head(): sorted is the outcome of sort_values.
KrakenVirusFilter(sorted, virus) ==
    IF virus
    THEN Loc(sorted, Mask(sorted, {r \in Rows(sorted) : r.domain = Viruses}))
    ELSE sorted

KrakenCutoffFilter(df, lvl, cut) ==
    Loc(Loc(df, Mask(df, {r \in Rows(df) : r.tax_lvl = TAXONOMY_LEVELS[lvl]})),
        Mask(df, {r \in Rows(df) : Gt(r.percent, cut)}))

\* Every (filtered_df, unclassified_pct) the call can return, or the error.
KrakenFilterData(df, lvl, cut, maxn, virus) ==
    IF lvl \notin DOMAIN TAXONOMY_LEVELS
    THEN {[status |-> "ValueError"]}
    ELSE { [status |-> "ok",
            filtered_df |-> DfHead(KrakenVirusFilter(s, virus), maxn),
            unclassified_pct |-> KrakenUnclassifiedPct(df)] :
           s \in SortValuesDesc(KrakenCutoffFilter(df, lvl, cut)) }

(***************************************************************************)
(* KaijuProcessor.filter_data                                              *)
(***************************************************************************)
KaijuUnclassifiedPct(df) ==
    LET unclassified_rows ==
            Loc(df, Mask(df, {r \in Rows(df) : r.taxon_name = Unclassified}))
    IN  IF Len(unclassified_rows) > 0 THEN unclassified_rows[1].percent ELSE 0

\* The cutoff filter without the exclusion of the unclassified row.
KaijuCutoffFilterKeepsUnclassified(sorted, df, cut) ==
    Loc(sorted, Mask(df, {r \in Rows(df) : Gt(r.percent, cut)}))

KaijuCutoffFilter(sorted, df, cut) ==
    Loc(Loc(sorted, Mask(df, {r \in Rows(df) : r.taxon_name # Unclassified})),
        Mask(df, {r \in Rows(df) : Gt(r.percent, cut)}))

KaijuFilterData(df, cut, maxn) ==
    { [status |-> "ok",
       filtered_df |-> DfHead(KaijuCutoffFilter(s, df, cut), maxn),
       unclassified_pct |-> KaijuUnclassifiedPct(df)] :
      s \in SortValuesDesc(DropColumn(df, "file")) }

(***************************************************************************)
(* The tables and parameters filter_data is called with.                   *)
(***************************************************************************)
KrakenRows ==
    { [percent |-> 500, tax_lvl |-> "S", name |-> <<"VirusA">>, domain |-> Viruses],
      [percent |-> 500, tax_lvl |-> "S", name |-> <<"VirusB">>, domain |-> Viruses],
      [percent |-> 600, tax_lvl |-> "S", name |-> <<"Ecoli">>, domain |-> <<"Bacteria">>],
      [percent |-> 300, tax_lvl |-> "U", name |-> Unclassified, domain |-> Unclassified],
      [percent |-> NaN, tax_lvl |-> "S", name |-> <<"VirusC">>, domain |-> Viruses],
      [percent |-> 700, tax_lvl |-> "D", name |-> Viruses, domain |-> Viruses] }

KaijuRows ==
    { [percent |-> 500, taxon_name |-> <<"VirusA">>],
      [percent |-> 500, taxon_name |-> <<"VirusB">>],
      [percent |-> 200, taxon_name |-> <<"Ecoli">>],
      [percent |-> 300, taxon_name |-> Unclassified],
      [percent |-> NaN, taxon_name |-> NA_str] }

Levels == {"species", "domain", "strain"}
Cutoffs == {200, 500}

TablesOf(rows) == UNION {[1..n -> rows] : n \in 0..MaxRows}

\* The RangeIndex of a freshly read table, and an optional "file" column.
WithIndex(rows) == [i \in DOMAIN rows |-> [idx |-> i - 1] @@ rows[i]]
WithFile(rows) == [i \in DOMAIN rows |-> [file |-> <<"sample">>] @@ rows[i]]

InitFilter ==
    /\ scenario = "filter"
    /\ pc = "start"
    /\ processor \in {"kraken", "kaiju"}
    /\ \/ /\ processor = "kraken"
          /\ data \in {WithIndex(t) : t \in TablesOf(KrakenRows)}
          /\ level \in Levels
          /\ virus_only \in BOOLEAN
       \/ /\ processor = "kaiju"
          /\ data \in {WithIndex(t) : t \in TablesOf(KaijuRows)}
                      \cup {WithIndex(WithFile(t)) : t \in TablesOf(KaijuRows)}
          /\ level = None
          /\ virus_only = None
    /\ cutoff \in Cutoffs
    /\ max_entries \in 0..MaxEntries
    /\ result = None
    /\ result2 = None
    /\ path = None
    /\ processed = None
    /\ contigs_df = None /\ row = None /\ matches = None
    /\ temp_file = None /\ invocations = None /\ running = None
    /\ DEFAULT_CONFIG = None /\ configs = None /\ calls = None
    /\ generated = None /\ config = None /\ config_dict = None
    /\ restored = None /\ arguments = None

\* filter_data with the "file" column dropped in place.
InputDroppedInPlace(df) == DropColumn(df, "file")

\* The table passed to filter_data, as the call leaves it: .loc, drop,
\* sort_values and head all return new tables.
InputAfterFilterData(df) == df

FilterData(df) ==
    IF processor = "kraken"
    THEN KrakenFilterData(df, level, cutoff, max_entries, virus_only)
    ELSE KaijuFilterData(df, cutoff, max_entries)

\* filter_data(data, ...)
FilterCall ==
    /\ scenario = "filter"
    /\ UNCHANGED reportVars
    /\ pc = "start"
    /\ result' \in FilterData(data)
    /\ data' = InputAfterFilterData(data)
    /\ pc' = "filtered"
    /\ UNCHANGED <<scenario, processor, level, cutoff, max_entries,
                   virus_only, result2, path, processed>>
    /\ UNCHANGED blastVars

\* filter_data(filtered_df, ...) on the table the first call returned.
RefilterCall ==
    /\ scenario = "filter"
    /\ UNCHANGED reportVars
    /\ pc = "filtered"
    /\ result.status = "ok"
    /\ result2' \in FilterData(result.filtered_df)
    /\ pc' = "refiltered"
    /\ UNCHANGED <<scenario, processor, data, level, cutoff, max_entries,
                   virus_only, result, path, processed>>
    /\ UNCHANGED blastVars

\* The second call the report makes on the same processed Kraken table:
\* filter_data(kraken_data, level="domain", virus_only=False, ...).
SecondFilterCall ==
    /\ scenario = "filter"
    /\ UNCHANGED reportVars
    /\ pc = "filtered"
    /\ processor = "kraken"
    /\ result.status = "ok"
    /\ result2' \in KrakenFilterData(data, "domain", cutoff, max_entries, FALSE)
    /\ data' = InputAfterFilterData(data)
    /\ pc' = "second"
    /\ UNCHANGED <<scenario, processor, level, cutoff, max_entries,
                   virus_only, result, path, processed>>
    /\ UNCHANGED blastVars

NextFilter == FilterCall \/ RefilterCall \/ SecondFilterCall

SpecFilter == InitFilter /\ [][NextFilter]_vars

(***************************************************************************)
(* BaseDataProcessor.validate_input and process.                           *)
(* A path is None-like when nothing is there: exists, is_file say what the *)
(* file system holds, content is what the file reads as (empty: size 0).   *)
(***************************************************************************)
MissingPath == [exists |-> FALSE, is_file |-> FALSE, content |-> <<>>]
DirectoryPath == [exists |-> TRUE, is_file |-> FALSE, content |-> <<>>]
RegularFile(content) == [exists |-> TRUE, is_file |-> TRUE, content |-> content]

\* "ok", or the exception validate_input raises.
BaseValidateInput(p) ==
    IF ~p.exists THEN "FileValidationError"
    ELSE IF ~p.is_file THEN "FileValidationError"
    ELSE IF ~(Len(p.content) > 0) THEN "FileValidationError"
    ELSE "ok"

Raised(exception) == [status |-> exception]
Returned(df) == [status |-> "ok", df |-> df]

\* process() with validate_input inside its try block.
BaseProcessValidatingInTry(validated, outcome) ==
    IF validated # "ok" THEN Raised("DataProcessingError")
    ELSE IF outcome.status # "ok" THEN Raised("DataProcessingError")
    ELSE outcome

\* process(): validate_input raises as it is; whatever _process_file raises is
\* wrapped into DataProcessingError.  validated and outcome are what the
\* subclass's validate_input and _process_file give.
BaseProcess(validated, outcome) ==
    IF validated # "ok" THEN Raised(validated)
    ELSE IF outcome.status # "ok" THEN Raised("DataProcessingError")
    ELSE outcome

(***************************************************************************)
(* KrakenProcessor.validate_input, _process_file                           *)
(***************************************************************************)
KrakenColumns == {"percent", "count_clades", "count", "tax_lvl", "taxonomy_id", "name"}

\* The missing value of a column, by the column's type.
NaOf(column) ==
    IF column \in {"name", "domain"} THEN NA_str
    ELSE IF column = "tax_lvl" THEN "<NA>"
    ELSE NaN

\* A line of the file gives its fields under the names of their positions:
\* the first of the six column names, and "extra" for a seventh field.
Width(line) == Cardinality(DOMAIN line)

\* The tokenizer takes the number of fields from the first line; a later
\* line with more fields is a ParserError, one with fewer is padded.
TooManyFields(content) ==
    \E i \in DOMAIN content : Width(content[i]) > Width(content[1])

\* The first nrows lines.
NRows(content, nrows) ==
    IF Len(content) <= nrows THEN content ELSE SubSeq(content, 1, nrows)

\* pd.read_csv(..., header=None, names=[...]): the rows, under a RangeIndex;
\* a field the line does not have is missing.
ReadCsv(content) ==
    [i \in DOMAIN content |->
        [idx |-> i - 1]
        @@ [c \in KrakenColumns |->
               IF c \in DOMAIN content[i] THEN content[i][c] ELSE NaOf(c)]]

\* validate_input that reads the whole file and wants six fields in every line.
KrakenValidateInputEveryRow(p) ==
    IF BaseValidateInput(p) # "ok" THEN BaseValidateInput(p)
    ELSE IF \E i \in DOMAIN p.content : Width(p.content[i]) # 6
         THEN "DataProcessingError"
         ELSE "ok"

\* test_df = pd.read_csv(file_path, sep="\t", nrows=5, header=None), then
\* test_df.shape[1] != 6; whatever is raised becomes DataProcessingError.
KrakenValidateInput(p) ==
    IF BaseValidateInput(p) # "ok" THEN BaseValidateInput(p)
    ELSE IF TooManyFields(NRows(p.content, 5)) THEN "DataProcessingError"
    ELSE IF Width(p.content[1]) # 6 THEN "DataProcessingError"
    ELSE "ok"

\* str.strip(): leading and trailing whitespace goes; a missing string stays missing.
Whitespace == {" ", "\t", "\n"}

RECURSIVE LStrip(_)
LStrip(s) == IF s # <<>> /\ s[1] \in Whitespace THEN LStrip(Tail(s)) ELSE s

RECURSIVE RStrip(_)
RStrip(s) ==
    IF s # <<>> /\ s[Len(s)] \in Whitespace
    THEN RStrip(SubSeq(s, 1, Len(s) - 1)) ELSE s

StrStrip(s) == IF s = NA_str THEN NA_str ELSE RStrip(LStrip(s))

\* The ranks whose name starts a domain.
DomainRanks == {"D", "U", "R"}

\* .assign(domain=np.select([tax_lvl.isin(["D","U","R"])], [name], default=pd.NA))
AssignDomain(frame) ==
    [i \in DOMAIN frame |->
        [domain |-> IF frame[i].tax_lvl \in DomainRanks
                    THEN frame[i].name ELSE NA_str] @@ frame[i]]

\* The cell of row i, column f, after a forward fill of the column.
RECURSIVE FfillCell(_, _, _)
FfillCell(frame, f, i) ==
    IF frame[i][f] # NaOf(f) \/ i = 1
    THEN frame[i][f]
    ELSE FfillCell(frame, f, i - 1)

\* _process_file without the forward fill.
FfillSkipped(frame) == frame

\* DataFrame.ffill(): every column is filled, the index is not a column.
Ffill(frame) ==
    [i \in DOMAIN frame |->
        [f \in DOMAIN frame[i] |->
            IF f = "idx" THEN frame[i][f] ELSE FfillCell(frame, f, i)]]

\* percent / 100 on a float column.
Div100(x) == IF x = NaN THEN NaN ELSE x \div 100

KrakenProcessFile(p) ==
    LET df == ReadCsv(p.content)
    IN  IF TooManyFields(p.content) THEN Raised("ParserError")
        \* .str on a column that holds no string raises AttributeError
        ELSE IF \A i \in DOMAIN df : df[i].name = NA_str
        THEN Raised("AttributeError")
        ELSE LET stripped == [i \in DOMAIN df |->
                                 [df[i] EXCEPT !.name = StrStrip(@)]]
                 filled == Ffill(AssignDomain(stripped))
             IN  Returned([i \in DOMAIN filled |->
                              [filled[i] EXCEPT !.percent = Div100(@)]])

KrakenFileRows ==
    { [percent |-> 10500, count_clades |-> 100, count |-> 50, tax_lvl |-> "D",
       taxonomy_id |-> 10239, name |-> <<" ", " ", "Viruses">>],
      [percent |-> 5200, count_clades |-> 50, count |-> 25, tax_lvl |-> "S",
       taxonomy_id |-> 123, name |-> <<" ", "VirusX", " ">>],
      [percent |-> 84300, count_clades |-> 800, count |-> 400, tax_lvl |-> "U",
       taxonomy_id |-> 0, name |-> <<"unclassified">>],
      [percent |-> 15700, count_clades |-> 200, count |-> 0, tax_lvl |-> "R",
       taxonomy_id |-> 1, name |-> <<"root">>],
      [percent |-> 1000, count_clades |-> 10, count |-> 5, tax_lvl |-> "D",
       taxonomy_id |-> 2, name |-> NA_str],
      [percent |-> NaN, count_clades |-> NaN, count |-> 7, tax_lvl |-> "S",
       taxonomy_id |-> 9, name |-> <<"SpeciesY">>] }

\* A line of five fields and a line of seven.
KrakenShortRow ==
    [percent |-> 300, count_clades |-> 3, count |-> 3, tax_lvl |-> "G",
     taxonomy_id |-> 5]
KrakenLongRow ==
    [percent |-> 700, count_clades |-> 7, count |-> 7, tax_lvl |-> "S",
     taxonomy_id |-> 77, name |-> <<"SpeciesZ">>, extra |-> <<"x">>]

\* Files of more lines than validate_input reads: five lines of six fields,
\* then one more line.
KrakenLongFiles ==
    LET line == [percent |-> 5200, count_clades |-> 50, count |-> 25,
                 tax_lvl |-> "S", taxonomy_id |-> 123,
                 name |-> <<" ", "VirusX", " ">>]
    IN  {<<line, line, line, line, line, last>> :
            last \in {line, KrakenShortRow, KrakenLongRow}}

InitKraken ==
    /\ scenario = "kraken"
    /\ pc = "start"
    /\ path \in {MissingPath, DirectoryPath}
                \cup {RegularFile(t) :
                        t \in TablesOf(KrakenFileRows
                                         \cup {KrakenShortRow, KrakenLongRow})}
                \cup {RegularFile(t) : t \in KrakenLongFiles}
    /\ processed = None
    /\ processor = None /\ data = None /\ level = None /\ cutoff = None
    /\ max_entries = None /\ virus_only = None
    /\ result = None /\ result2 = None
    /\ contigs_df = None /\ row = None /\ matches = None
    /\ temp_file = None /\ invocations = None /\ running = None
    /\ DEFAULT_CONFIG = None /\ configs = None /\ calls = None
    /\ generated = None /\ config = None /\ config_dict = None
    /\ restored = None /\ arguments = None

\* KrakenProcessor().process(path)
KrakenProcess ==
    /\ scenario = "kraken"
    /\ UNCHANGED reportVars
    /\ pc = "start"
    /\ processed' = BaseProcess(KrakenValidateInput(path),
                                IF KrakenValidateInput(path) = "ok"
                                THEN KrakenProcessFile(path) ELSE None)
    /\ pc' = "done"
    /\ UNCHANGED <<scenario, path, processor, data, level, cutoff,
                   max_entries, virus_only, result, result2>>
    /\ UNCHANGED blastVars

NextKraken == KrakenProcess

SpecKraken == InitKraken /\ [][NextKraken]_vars

(***************************************************************************)
(* float64 arithmetic.  A float is [s, m, e]: the sign s (1 or -1), the    *)
(* significand m, a natural of exactly Precision bits (or zero), and the   *)
(* exponent e of its last bit: the value is s * m * 2^e.  A natural of that*)
(* size is a sequence of limbs in base 2^LimbBits, most significant first, *)
(* with no leading zero limb (zero is the empty sequence).  The operations *)
(* round the exact result to nearest, ties to even, as IEEE 754 does; the  *)
(* values that occur (read counts and percentages) are far from overflow   *)
(* and underflow.                                                          *)
(***************************************************************************)
Precision == 53
LimbBits == 15
Base == 2 ^ LimbBits

ZeroLimbs(n) == [i \in 1..n |-> 0]

RECURSIVE Norm(_)
Norm(b) == IF b # <<>> /\ b[1] = 0 THEN Norm(Tail(b)) ELSE b

RECURSIVE BigOfNat(_)
BigOfNat(n) == IF n = 0 THEN <<>> ELSE Append(BigOfNat(n \div Base), n % Base)

RECURSIVE NatOfBig(_)
NatOfBig(b) ==
    IF b = <<>> THEN 0
    ELSE Base * NatOfBig(SubSeq(b, 1, Len(b) - 1)) + b[Len(b)]

RECURSIVE BitLenNat(_)
BitLenNat(n) == IF n = 0 THEN 0 ELSE 1 + BitLenNat(n \div 2)

\* The number of bits of a natural without leading zero limb.
BitLen(b) == IF b = <<>> THEN 0 ELSE (Len(b) - 1) * LimbBits + BitLenNat(b[1])

\* b * c, 0 <= c <= Base: schoolbook, from the last limb with a carry.
RECURSIVE MulFrom(_, _, _, _, _)
MulFrom(b, c, i, carry, acc) ==
    IF i = 0 THEN BigOfNat(carry) \o acc
    ELSE LET d == b[i] * c + carry
         IN  MulFrom(b, c, i - 1, d \div Base, <<d % Base>> \o acc)

MulSmall(b, c) == Norm(MulFrom(b, c, Len(b), 0, <<>>))

\* b divided by d, 0 < d <= Base: long division, [q, r].
RECURSIVE DivFrom(_, _, _, _, _)
DivFrom(b, d, i, rem, acc) ==
    IF i > Len(b) THEN [q |-> Norm(acc), r |-> rem]
    ELSE LET x == rem * Base + b[i]
         IN  DivFrom(b, d, i + 1, x % d, Append(acc, x \div d))

DivSmall(b, d) == DivFrom(b, d, 1, 0, <<>>)

\* b * 2^n and the integer part of b / 2^n.
ShiftLeft(b, n) ==
    IF b = <<>> THEN <<>>
    ELSE MulSmall(b, 2 ^ (n % LimbBits)) \o ZeroLimbs(n \div LimbBits)

ShiftRight(b, n) ==
    IF n \div LimbBits >= Len(b) THEN <<>>
    ELSE DivSmall(SubSeq(b, 1, Len(b) - n \div LimbBits), 2 ^ (n % LimbBits)).q

PadTo(b, n) == ZeroLimbs(n - Len(b)) \o b

\* a - b for a >= b, both of n limbs.
RECURSIVE SubFrom(_, _, _, _, _)
SubFrom(a, b, i, borrow, acc) ==
    IF i = 0 THEN acc
    ELSE LET d == a[i] - b[i] - borrow
         IN  SubFrom(a, b, i - 1, IF d < 0 THEN 1 ELSE 0,
                     <<IF d < 0 THEN d + Base ELSE d>> \o acc)

BigSub(a, b) == Norm(SubFrom(a, b, Len(a), 0, <<>>))

\* a < b, both of n limbs.
RECURSIVE LessFrom(_, _, _)
LessFrom(a, b, i) ==
    IF i > Len(a) THEN FALSE
    ELSE IF a[i] # b[i] THEN a[i] < b[i]
    ELSE LessFrom(a, b, i + 1)

BigLess(a, b) == LessFrom(a, b, 1)

\* b + 1.
RECURSIVE IncFrom(_, _)
IncFrom(b, i) ==
    IF i = 0 THEN <<1>> \o b
    ELSE IF b[i] < Base - 1 THEN [b EXCEPT ![i] = @ + 1]
    ELSE IncFrom([b EXCEPT ![i] = 0], i - 1)

BigInc(b) == IncFrom(b, Len(b))

FloatZero == [s |-> 1, m |-> <<>>, e |-> 0]

\* The float nearest to s * (b + f) * 2^e, where f is a fraction in [0, 1)
\* that is nonzero exactly when sticky; b has at most Precision + LimbBits bits.
RoundToFloat(s, b, e, sticky) ==
    LET len == BitLen(b)
        shift == len - Precision
    IN  IF len = 0 THEN FloatZero
        ELSE IF shift <= 0
        THEN [s |-> s, m |-> ShiftLeft(b, 0 - shift), e |-> e + shift]
        ELSE LET qr == DivSmall(b, 2 ^ shift)
                 half == 2 ^ (shift - 1)
                 odd == qr.q[Len(qr.q)] % 2 = 1
                 up == \/ qr.r > half
                       \/ qr.r = half /\ (sticky \/ odd)
                 m == IF up THEN BigInc(qr.q) ELSE qr.q
             IN  IF BitLen(m) > Precision
                 THEN [s |-> s, m |-> DivSmall(m, 2).q, e |-> e + shift + 1]
                 ELSE [s |-> s, m |-> m, e |-> e + shift]

\* float(n), n an integer.
FloatOfInt(n) ==
    IF n < 0 THEN RoundToFloat(-1, BigOfNat(0 - n), 0, FALSE)
    ELSE RoundToFloat(1, BigOfNat(n), 0, FALSE)

\* x * c, c a natural up to Base (int * float converts the int exactly).
FloatMulInt(x, c) == RoundToFloat(x.s, MulSmall(x.m, c), x.e, FALSE)

\* The extra bits a quotient by d is computed with, so that it has its
\* rounding bit.
GuardBits(d) == BitLenNat(d) + 2

\* x / d, d a positive natural up to Base.
FloatDivInt(x, d) ==
    LET qr == DivSmall(ShiftLeft(x.m, GuardBits(d)), d)
    IN  RoundToFloat(x.s, qr.q, x.e - GuardBits(d), qr.r # 0)

\* x / 1e6, as two exact divisions by 1000.
FloatDivMillion(x) ==
    LET g == GuardBits(1000) + GuardBits(1000)
        first == DivSmall(ShiftLeft(x.m, g), 1000)
        second == DivSmall(first.q, 1000)
    IN  RoundToFloat(x.s, second.q, x.e - g, first.r # 0 \/ second.r # 0)

\* round(x * 10^digits) for x >= 0, half to even on the exact value of x: the
\* digits that f"{x:.1f}" and f"{x:.2f}" print.
Scaled(x, digits) ==
    LET n == MulSmall(x.m, 10 ^ digits)
    IN  IF x.e >= 0 THEN NatOfBig(ShiftLeft(n, x.e))
        ELSE LET q == ShiftRight(n, 0 - x.e)
                 back == ShiftLeft(q, 0 - x.e)
                 w == Len(n) + 1
                 rem == BigSub(PadTo(n, w), PadTo(back, w))
                 half == ShiftLeft(<<1>>, (0 - x.e) - 1)
                 h == IF Len(half) > Len(rem) THEN Len(half) ELSE Len(rem)
                 below == BigLess(PadTo(rem, h), PadTo(half, h))
                 above == BigLess(PadTo(half, h), PadTo(rem, h))
                 floor == NatOfBig(q)
             IN  IF below THEN floor
                 ELSE IF above THEN floor + 1
                 ELSE IF floor % 2 = 1 THEN floor + 1 ELSE floor

\* str(n) with at least width digits.
RECURSIVE ZeroPadded(_, _)
ZeroPadded(n, width) ==
    IF width <= 1 THEN ToString(n)
    ELSE ToString(n \div 10 ^ (width - 1)) \o ZeroPadded(n % 10 ^ (width - 1), width - 1)

\* f"{x:.<digits>f}" for x >= 0.
FormatFixed(x, digits) ==
    LET t == Scaled(x, digits)
    IN  ToString(t \div 10 ^ digits) \o "." \o ZeroPadded(t % 10 ^ digits, digits)

\* c - x, c a natural, x a float with 0 <= x < 2^Precision.
IntSubFloat(c, x) ==
    IF x.m = <<>> THEN FloatOfInt(c)
    ELSE LET cb == ShiftLeft(BigOfNat(c), 0 - x.e)
             n == IF Len(cb) > Len(x.m) THEN Len(cb) ELSE Len(x.m)
             a == PadTo(cb, n)
             b == PadTo(x.m, n)
         IN  IF BigLess(a, b)
             THEN RoundToFloat(-1, BigSub(b, a), x.e, FALSE)
             ELSE RoundToFloat(1, BigSub(a, b), x.e, FALSE)

\* int(x): truncation toward zero, |x| below 2^31.
FloatToInt(x) ==
    IF x.e >= 0 THEN x.s * NatOfBig(ShiftLeft(x.m, x.e))
    ELSE x.s * NatOfBig(ShiftRight(x.m, 0 - x.e))

(***************************************************************************)
(* FlagstatProcessor.  The text of a flagstat file is a sequence of lines; *)
(* what the processor can tell apart in a line is its kind:                *)
(*   "total"  - "<n> + <d> paired in sequencing": pattern_total matches it *)
(*              and captures n;                                            *)
(*   "mapped" - "<n> + <d> with itself and mate mapped": pattern_mapped    *)
(*              matches it and captures n;                                 *)
(*   "phrase" - a line that holds the words "paired in sequencing" without *)
(*              the counts before them: no pattern matches it;             *)
(*   "other"  - any other line ("<n> + <d> properly paired", ...).         *)
(***************************************************************************)
MaxLines == 3
MaxCount == 3

FlagstatLines ==
    [kind : {"total", "mapped"}, n : 0..MaxCount]
        \cup {[kind |-> "phrase", n |-> 0], [kind |-> "other", n |-> 0]}

FlagstatTexts == UNION {[1..k -> FlagstatLines] : k \in 0..MaxLines}

\* "paired in sequencing" in content
HasPairedPhrase(content) ==
    \E i \in DOMAIN content : content[i].kind \in {"total", "phrase"}

FlagstatValidateInput(p) ==
    IF BaseValidateInput(p) # "ok" THEN BaseValidateInput(p)
    ELSE IF ~HasPairedPhrase(p.content) THEN "DataProcessingError"
    ELSE "ok"

\* re.findall(pattern, content): the captured counts, in the order of the text.
RECURSIVE Findall(_, _)
Findall(kind, content) ==
    IF content = <<>> THEN <<>>
    ELSE IF content[1].kind = kind
         THEN <<content[1].n>> \o Findall(kind, Tail(content))
         ELSE Findall(kind, Tail(content))

\* (total_mapped / total_reads) * 100
Percent(total_mapped, total_reads) ==
    FloatMulInt(FloatDivInt(FloatOfInt(total_mapped), total_reads), 100)

\* _parse_flagstat taking the last match of each pattern.
ParseFlagstatLastMatch(content) ==
    LET total_matches == Findall("total", content)
        mapped_matches == Findall("mapped", content)
    IN  IF total_matches = <<>> THEN Raised("DataProcessingError")
        ELSE IF mapped_matches = <<>> THEN Raised("DataProcessingError")
        ELSE LET total_reads == total_matches[Len(total_matches)]
                 total_mapped == mapped_matches[Len(mapped_matches)]
             IN  [status |-> "ok",
                  total_reads |-> total_reads,
                  percent_mapped |-> IF total_reads = 0 THEN FloatZero
                                     ELSE Percent(total_mapped, total_reads)]

\* _parse_flagstat without the guard for a total of 0: the division raises.
ParseFlagstatNoZeroGuard(content) ==
    LET total_matches == Findall("total", content)
        mapped_matches == Findall("mapped", content)
    IN  IF total_matches = <<>> THEN Raised("DataProcessingError")
        ELSE IF mapped_matches = <<>> THEN Raised("DataProcessingError")
        ELSE LET total_reads == total_matches[1]
                 total_mapped == mapped_matches[1]
             IN  IF total_reads = 0 THEN Raised("ZeroDivisionError")
                 ELSE [status |-> "ok",
                       total_reads |-> total_reads,
                       percent_mapped |-> Percent(total_mapped, total_reads)]

\* _parse_flagstat taking 0 for the mapped count when its pattern has no match.
ParseFlagstatDefaultMapped(content) ==
    LET total_matches == Findall("total", content)
        mapped_matches == Findall("mapped", content)
    IN  IF total_matches = <<>> THEN Raised("DataProcessingError")
        ELSE LET total_reads == total_matches[1]
                 total_mapped == IF mapped_matches = <<>> THEN 0
                                 ELSE mapped_matches[1]
             IN  [status |-> "ok",
                  total_reads |-> total_reads,
                  percent_mapped |-> IF total_reads = 0 THEN FloatZero
                                     ELSE Percent(total_mapped, total_reads)]

ParseFlagstat(content) ==
    LET total_matches == Findall("total", content)
        mapped_matches == Findall("mapped", content)
    IN  IF total_matches = <<>> THEN Raised("DataProcessingError")
        ELSE IF mapped_matches = <<>> THEN Raised("DataProcessingError")
        ELSE LET total_reads == total_matches[1]
                 total_mapped == mapped_matches[1]
             IN  [status |-> "ok",
                  total_reads |-> total_reads,
                  percent_mapped |-> IF total_reads = 0 THEN FloatZero
                                     ELSE Percent(total_mapped, total_reads)]

\* int(total_reads * percent_mapped / 100)
ReadsMapped(total_reads, percent_mapped) ==
    FloatToInt(FloatDivInt(FloatMulInt(percent_mapped, total_reads), 100))

\* int(total_reads * (100 - percent_mapped) / 100)
ReadsUnmapped(total_reads, percent_mapped) ==
    FloatToInt(FloatDivInt(
        FloatMulInt(IntSubFloat(100, percent_mapped), total_reads), 100))

\* pd.DataFrame({"metric": [...], "value": [...]}): the list of values holds a
\* float, so the column is float64 and every count in it is converted.
MetricsFrame(metrics, values) ==
    [i \in 1..Len(metrics) |->
        [idx |-> i - 1, metric |-> metrics[i],
         value |-> IF i = 2 THEN values[i] ELSE FloatOfInt(values[i])]]

FlagstatProcessFile(p) ==
    LET parsed == ParseFlagstat(p.content)
    IN  IF parsed.status # "ok" THEN parsed
        ELSE Returned(MetricsFrame(
                 <<"total_reads", "percent_mapped", "reads_mapped",
                   "reads_unmapped">>,
                 <<parsed.total_reads,
                   parsed.percent_mapped,
                   ReadsMapped(parsed.total_reads, parsed.percent_mapped),
                   ReadsUnmapped(parsed.total_reads, parsed.percent_mapped)>>))

InitFlagstat ==
    /\ scenario = "flagstat"
    /\ pc = "start"
    /\ path \in {MissingPath, DirectoryPath}
                \cup {RegularFile(t) : t \in FlagstatTexts}
    /\ processed = None
    /\ processor = None /\ data = None /\ level = None /\ cutoff = None
    /\ max_entries = None /\ virus_only = None
    /\ result = None /\ result2 = None
    /\ contigs_df = None /\ row = None /\ matches = None
    /\ temp_file = None /\ invocations = None /\ running = None
    /\ DEFAULT_CONFIG = None /\ configs = None /\ calls = None
    /\ generated = None /\ config = None /\ config_dict = None
    /\ restored = None /\ arguments = None

\* FlagstatProcessor().process(path)
FlagstatProcess ==
    /\ scenario = "flagstat"
    /\ UNCHANGED reportVars
    /\ pc = "start"
    /\ processed' = BaseProcess(FlagstatValidateInput(path),
                                IF FlagstatValidateInput(path) = "ok"
                                THEN FlagstatProcessFile(path) ELSE None)
    /\ pc' = "done"
    /\ UNCHANGED <<scenario, path, processor, data, level, cutoff,
                   max_entries, virus_only, result, result2>>
    /\ UNCHANGED blastVars

NextFlagstat == FlagstatProcess

SpecFlagstat == InitFlagstat /\ [][NextFlagstat]_vars

(***************************************************************************)
(* BlastProcessor.run_blastn.  A table is [columns, rows] here, so that a  *)
(* table without rows still has its columns.  The query file holds a       *)
(* string.  A text (the standard output of blastn, a match) is a sequence  *)
(* of tokens: words, the tab and the newline.  blastn is asked for one     *)
(* line of four tab-separated fields per hit: title, accession, percent    *)
(* identity, subject length.                                               *)
(***************************************************************************)
MaxContigs == 2

TAB == "\t"
NL == "\n"

ContigRows ==
    { [name |-> "contig1", sequence |-> "ACGTACGT"],
      [name |-> "contig2", sequence |-> "GGCC"] }

\* The tables pd.read_csv(contigs_file) gives: with the two columns the loop
\* needs, or with the name column alone.
ContigTables ==
    {[columns |-> <<"name", "sequence">>, rows |-> WithIndex(t)] :
        t \in UNION {[1..n -> ContigRows] : n \in 0..MaxContigs}}
    \cup
    {[columns |-> <<"name">>,
      rows |-> WithIndex([i \in 1..n |-> [name |-> "contig1"]])] :
        n \in 0..1}

HitLine(stitle, sacc, slen) ==
    <<stitle, TAB, sacc, TAB, "99.5", TAB, slen, NL>>

\* What blastn prints: nothing without a hit, a line per hit otherwise.
BlastStdouts ==
    { <<>>,
      HitLine("VirusA", "NC_1", "1500"),
      HitLine("VirusA", "NC_1", "1500") \o HitLine("VirusB", "NC_2", "900") }

\* How subprocess.run(command, check=True, timeout=300) can end: the process
\* exits with status 0, the timeout expires, the process exits with another
\* status, or the call raises something else (blastn cannot be started).
BlastOutcomes ==
    {[kind |-> "completed", stdout |-> s] : s \in BlastStdouts}
    \cup {[kind |-> k, stdout |-> <<>>] : k \in {"timeout", "nonzero", "oserror"}}

\* A table is never taken for empty.
DfNeverEmpty(df) == FALSE

\* contigs_df.empty
DfEmpty(df) == Len(df.rows) = 0 \/ Len(df.columns) = 0

\* tempfile.NamedTemporaryFile(mode='w', suffix='.fasta', delete=False)
\* The content of the file is a string.
NoTempFile == [created |-> FALSE, exists |-> FALSE, content |-> ""]
NamedTemporaryFile == [created |-> TRUE, exists |-> TRUE, content |-> ""]

\* The file keeps what an earlier write left in it.
TruncateSkipped(content, position) == content

\* truncate() at the position of the stream
Truncate(content, position) == SubSeq(content, 1, position)

\* write(text) at the position of the stream: what is there is overwritten,
\* what lies beyond the end of text stays.
WriteAt(content, position, text) ==
    SubSeq(content, 1, position) \o text
        \o SubSeq(content, position + Len(text) + 1, Len(content))

\* seek(0); truncate(); write(">name\nsequence\n"); flush()
WriteQuery(file, contig) ==
    [file EXCEPT !.content =
        WriteAt(Truncate(@, 0), 0,
                ">" \o contig.name \o NL \o contig.sequence \o NL)]

\* The file is left where it is.
UnlinkSkipped(file) == file

\* Path(temp_path).unlink(missing_ok=True)
Unlink(file) == [file EXCEPT !.exists = FALSE]

\* The loop without its except clause for the timeout.
PropagatesTimeout(outcome) == outcome.kind \notin {"completed", "nonzero"}

\* The exceptions of subprocess.run that no except clause of the loop catches.
Propagates(outcome) == outcome.kind \notin {"completed", "timeout", "nonzero"}

\* What the loop appends to matches.
MatchOf(outcome) ==
    IF outcome.kind = "completed" THEN StrStrip(outcome.stdout) ELSE <<>>

\* A loop that tries a failed query again.
RowAfterRetry(r, outcome) ==
    IF outcome.kind \in {"timeout", "nonzero"} THEN r ELSE r + 1

\* Where the loop goes after the invocation for row r: iterrows() moves on.
RowAfter(r, outcome) == r + 1

\* str.split(sep): the fields between the separators.
RECURSIVE Split(_, _)
Split(text, sep) ==
    IF \A k \in DOMAIN text : text[k] # sep THEN <<text>>
    ELSE LET k == CHOOSE j \in DOMAIN text :
                      text[j] = sep /\ \A l \in 1..(j - 1) : text[l] # sep
         IN  <<SubSeq(text, 1, k - 1)>> \o
             Split(SubSeq(text, k + 1, Len(text)), sep)

\* The fourth field as split gives it.
CutAtNewlineSkipped(field) == field

\* .str.split("\n").str[0]; a missing field stays missing.
CutAtNewline(field) == IF field = NA_str THEN NA_str ELSE Split(field, NL)[1]

\* Column k of matches.str.split("\t", expand=True): missing where the text
\* has fewer fields.
BlastColumn(fields, k) == IF k <= Len(fields) THEN fields[k] ELSE NA_str

Widest(frame) ==
    CHOOSE w \in {Len(Split(frame[i].matches, TAB)) : i \in DOMAIN frame} :
        \A i \in DOMAIN frame : Len(Split(frame[i].matches, TAB)) <= w

\* Lines 88-102: attach the matches, drop the empty ones, split the rest.
BlastResult(df, texts) ==
    LET assigned == [i \in DOMAIN df.rows |-> [matches |-> texts[i]] @@ df.rows[i]]
        result_rows == SelectSeq(assigned, LAMBDA r : r.matches # <<>>)
    IN  IF result_rows = <<>>
        THEN [columns |-> Append(df.columns, "matches"), rows |-> <<>>]
        ELSE IF Widest(result_rows) >= 4
        THEN [columns |-> df.columns \o <<"matches", "match_name", "accession",
                                          "percent_identity", "sequence_len">>,
              rows |-> [i \in DOMAIN result_rows |->
                  LET fields == Split(result_rows[i].matches, TAB)
                  IN  [match_name |-> BlastColumn(fields, 1),
                       accession |-> BlastColumn(fields, 2),
                       percent_identity |-> BlastColumn(fields, 3),
                       sequence_len |-> CutAtNewline(BlastColumn(fields, 4))]
                      @@ result_rows[i]]]
        ELSE [columns |-> Append(df.columns, "matches"), rows |-> result_rows]

InitBlast ==
    /\ scenario = "blast"
    /\ pc = "start"
    /\ contigs_df \in ContigTables
    /\ row = 0
    /\ matches = <<>>
    /\ temp_file = NoTempFile
    /\ invocations = <<>>
    /\ running = {}
    /\ processed = None
    /\ path = None
    /\ processor = None /\ data = None /\ level = None /\ cutoff = None
    /\ max_entries = None /\ virus_only = None
    /\ result = None /\ result2 = None
    /\ DEFAULT_CONFIG = None /\ configs = None /\ calls = None
    /\ generated = None /\ config = None /\ config_dict = None
    /\ restored = None /\ arguments = None

\* Lines 41-53: an empty table is returned as it is, a table without the two
\* columns is refused, otherwise the temporary file is created.
BlastStart ==
    /\ scenario = "blast"
    /\ UNCHANGED reportVars
    /\ pc = "start"
    /\ IF DfEmpty(contigs_df)
       THEN /\ processed' = Returned(contigs_df)
            /\ pc' = "done"
            /\ UNCHANGED <<row, temp_file>>
       ELSE IF ~({"name", "sequence"} \subseteq
                    {contigs_df.columns[k] : k \in DOMAIN contigs_df.columns})
       THEN /\ processed' = Raised("DataProcessingError")
            /\ pc' = "done"
            /\ UNCHANGED <<row, temp_file>>
       ELSE /\ temp_file' = NamedTemporaryFile
            /\ row' = 1
            /\ pc' = "loop"
            /\ UNCHANGED processed
    /\ UNCHANGED <<scenario, contigs_df, matches, invocations, running, path,
                   processor, data, level, cutoff, max_entries, virus_only,
                   result, result2>>

\* Lines 55-76: the query of the row is written and blastn is started.
BlastInvoke ==
    /\ scenario = "blast"
    /\ UNCHANGED reportVars
    /\ pc = "loop"
    /\ row <= Len(contigs_df.rows)
    /\ temp_file' = WriteQuery(temp_file, contigs_df.rows[row])
    /\ invocations' = Append(invocations,
                             [row |-> row, query |-> temp_file'.content,
                              outcome |-> None])
    /\ running' = running \cup {row}
    /\ pc' = "running"
    /\ UNCHANGED <<scenario, contigs_df, row, matches, processed, path,
                   processor, data, level, cutoff, max_entries, virus_only,
                   result, result2>>

\* Lines 70-86: subprocess.run ends; the match is recorded, or the exception
\* leaves the loop through the finally clause.
BlastComplete ==
    /\ scenario = "blast"
    /\ UNCHANGED reportVars
    /\ pc = "running"
    /\ \E outcome \in BlastOutcomes :
        /\ invocations' = [invocations EXCEPT ![Len(invocations)].outcome = outcome]
        /\ running' = running \ {row}
        /\ IF Propagates(outcome)
           THEN /\ temp_file' = Unlink(temp_file)
                /\ processed' = Raised("OSError")
                /\ pc' = "done"
                /\ UNCHANGED <<row, matches>>
           ELSE /\ matches' = Append(matches, MatchOf(outcome))
                /\ row' = RowAfter(row, outcome)
                /\ pc' = "loop"
                /\ UNCHANGED <<temp_file, processed>>
    /\ UNCHANGED <<scenario, contigs_df, path, processor, data, level, cutoff,
                   max_entries, virus_only, result, result2>>

\* Lines 85-102: the loop is over; the file is removed and the table built.
BlastFinish ==
    /\ scenario = "blast"
    /\ UNCHANGED reportVars
    /\ pc = "loop"
    /\ row > Len(contigs_df.rows)
    /\ temp_file' = Unlink(temp_file)
    /\ processed' = Returned(BlastResult(contigs_df, matches))
    /\ pc' = "done"
    /\ UNCHANGED <<scenario, contigs_df, row, matches, invocations, running,
                   path, processor, data, level, cutoff, max_entries,
                   virus_only, result, result2>>

NextBlast == BlastStart \/ BlastInvoke \/ BlastComplete \/ BlastFinish

SpecBlast == InitBlast /\ [][NextBlast]_vars

(***************************************************************************)
(* FastpProcessor.  A JSON object is a function from its keys to their      *)
(* values; a count is an integer, a rate is given in thousandths (12 is the*)
(* JSON number 0.012).  The file holds one text: a JSON object, or         *)
(* something json.load cannot parse.                                       *)
(***************************************************************************)
EmptyDict == <<>>

\* The object d without the keys outside keys.
Restrict(d, keys) == [k \in keys \cap DOMAIN d |-> d[k]]

BeforeFiltering(total_reads) ==
    [total_reads |-> total_reads, read1_mean_length |-> 150,
     read2_mean_length |-> 148]

AfterFiltering ==
    [total_reads |-> 900, total_bases |-> 1250000, q20_bases |-> 1150000,
     q30_bases |-> 1049999, q20_rate |-> 920, q30_rate |-> 845,
     gc_content |-> 415, read1_mean_length |-> 149, read2_mean_length |-> 147]

FilteringResults ==
    { [passed_filter_reads |-> 900, low_quality_reads |-> 50,
       too_many_N_reads |-> 7, too_short_reads |-> 43],
      [passed_filter_reads |-> 250, low_quality_reads |-> 1,
       too_many_N_reads |-> 0, too_short_reads |-> 2] }

FastpSummaries ==
    { Restrict([fastp_version |-> "0.23.2", sequencing |-> "paired end",
                before_filtering |-> b, after_filtering |-> a], keys) :
        b \in {Restrict(BeforeFiltering(n), k) :
                 n \in {0, 3, 1000},
                 k \in {{}, {"total_reads"}, {"read1_mean_length"},
                        {"total_reads", "read1_mean_length", "read2_mean_length"}}},
        a \in {Restrict(AfterFiltering, k) :
                 k \in {{}, {"total_reads"}, DOMAIN AfterFiltering,
                        DOMAIN AfterFiltering \ {"total_reads", "q20_rate"}}},
        keys \in {{}, {"fastp_version", "sequencing"},
                  {"before_filtering", "after_filtering"},
                  {"fastp_version", "before_filtering"},
                  {"fastp_version", "sequencing", "before_filtering",
                   "after_filtering"}} }

FastpDocuments ==
    { Restrict([summary |-> s, duplication |-> d, insert_size |-> i,
                filtering_result |-> f], keys) :
        s \in FastpSummaries,
        d \in {EmptyDict, [rate |-> 12]},
        i \in {[peak |-> 250]},
        f \in FilteringResults
                \cup {Restrict(r, {"passed_filter_reads"}) : r \in FilteringResults},
        keys \in SUBSET {"summary", "duplication", "insert_size",
                         "filtering_result"} }

\* What the file holds.
JsonText(document) == [json |-> TRUE, value |-> document]
NotJson == [json |-> FALSE, value |-> EmptyDict]

\* dict.get(key, default)
Get(d, key, default) == IF key \in DOMAIN d THEN d[key] ELSE default

\* A missing number written as 0.
GetStrZero(d, key) == IF key \in DOMAIN d THEN ToString(d[key]) ELSE "0"

\* str(d.get(key, "N/A")) for a number d[key].
GetStr(d, key) == IF key \in DOMAIN d THEN ToString(d[key]) ELSE "N/A"

\* The float a JSON number of so many thousandths is read as.
JsonFloat(thousandths) == FloatDivInt(FloatOfInt(thousandths), 1000)

\* rate * 100 for a rate read from the document.
RatePercent(rate) == FloatMulInt(JsonFloat(rate), 100)

\* n / 1000 and n / 1e6
Thousands(n) == FloatDivInt(FloatOfInt(n), 1000)
Millions(n) == FloatDivMillion(FloatOfInt(n))

\* The post-filter total in the place of the pre-filter one.
TotalReadsAfter(summary) ==
    Get(Get(summary, "after_filtering", EmptyDict), "total_reads", 1)

\* before.get("total_reads", 1)
TotalReadsBefore(summary) ==
    Get(Get(summary, "before_filtering", EmptyDict), "total_reads", 1)

FastpValidateInput(p) ==
    IF BaseValidateInput(p) # "ok" THEN BaseValidateInput(p)
    ELSE IF ~p.content[1].json THEN "DataProcessingError"
    ELSE IF "summary" \notin DOMAIN p.content[1].value THEN "DataProcessingError"
    ELSE "ok"

\* The parts of an f-string: a text as it stands, or a number to format,
\* which is n / 1000, n / 1e6, (n / d) * 100 or the rate n * 100.
Text(text) == [text |-> text]
Number(kind, n, d, digits) == [kind |-> kind, n |-> n, d |-> d, digits |-> digits]

FormatPart(part) ==
    IF "text" \in DOMAIN part THEN part.text
    ELSE FormatFixed(CASE part.kind = "thousands" -> Thousands(part.n)
                       [] part.kind = "millions" -> Millions(part.n)
                       [] part.kind = "percent" -> Percent(part.n, part.d)
                       [] part.kind = "rate" -> RatePercent(part.n),
                     part.digits)

RECURSIVE FString(_)
FString(parts) ==
    IF parts = <<>> THEN "" ELSE FormatPart(Head(parts)) \o FString(Tail(parts))

\* _extract_statistics: the items of the dict it returns, in order.
ExtractStatistics(document) ==
    LET summary == Get(document, "summary", EmptyDict)
        before == Get(summary, "before_filtering", EmptyDict)
        after == Get(summary, "after_filtering", EmptyDict)
        duplication == Get(document, "duplication", EmptyDict)
        insert_size == Get(document, "insert_size", EmptyDict)
        filtering == Get(document, "filtering_result", EmptyDict)
        total_reads_before == TotalReadsBefore(summary)
        passed == Get(filtering, "passed_filter_reads", 0)
        low_quality == Get(filtering, "low_quality_reads", 0)
        too_many_N == Get(filtering, "too_many_N_reads", 0)
        too_short == Get(filtering, "too_short_reads", 0)
        items == <<
            <<"fastp version",
              <<Text(Get(summary, "fastp_version", "N/A")),
                Text(" (https://github.com/OpenGene/fastp)")>> >>,
            <<"sequencing", <<Text(Get(summary, "sequencing", "N/A"))>> >>,
            <<"mean length before filtering",
              <<Text(GetStr(before, "read1_mean_length")), Text("bp, "),
                Text(GetStr(before, "read2_mean_length")), Text("bp")>> >>,
            <<"mean length after filtering",
              <<Text(GetStr(after, "read1_mean_length")), Text("bp, "),
                Text(GetStr(after, "read2_mean_length")), Text("bp")>> >>,
            <<"duplication rate",
              <<Number("rate", Get(duplication, "rate", 0), 1, 2), Text("%")>> >>,
            <<"Insert size peak", <<Text(GetStr(insert_size, "peak"))>> >>,
            <<"total reads",
              <<Number("thousands", Get(after, "total_reads", 0), 1, 1),
                Text(" K")>> >>,
            <<"total bases",
              <<Number("millions", Get(after, "total_bases", 0), 1, 1),
                Text(" M")>> >>,
            <<"Q20 bases",
              <<Number("millions", Get(after, "q20_bases", 0), 1, 1), Text(" M ("),
                Number("rate", Get(after, "q20_rate", 0), 1, 1), Text("%)")>> >>,
            <<"Q30 bases",
              <<Number("millions", Get(after, "q30_bases", 0), 1, 1), Text(" M ("),
                Number("rate", Get(after, "q30_rate", 0), 1, 1), Text("%)")>> >>,
            <<"GC content",
              <<Number("rate", Get(after, "gc_content", 0), 1, 1), Text("%")>> >>,
            <<"reads passed filters",
              <<Number("thousands", passed, 1, 1), Text(" K ("),
                Number("percent", passed, total_reads_before, 1), Text("%)")>> >>,
            <<"reads with low quality",
              <<Number("thousands", low_quality, 1, 1), Text(" K ("),
                Number("percent", low_quality, total_reads_before, 1),
                Text("%)")>> >>,
            <<"reads with too many N",
              <<Text(ToString(too_many_N)), Text(" ("),
                Number("percent", too_many_N, total_reads_before, 2),
                Text("%)")>> >>,
            <<"reads too short",
              <<Text(ToString(too_short)), Text(" ("),
                Number("percent", too_short, total_reads_before, 2),
                Text("%)")>> >> >>
    IN  \* passed / total_reads_before
        IF total_reads_before = 0 THEN Raised("ZeroDivisionError")
        ELSE [status |-> "ok",
              stats |-> [i \in DOMAIN items |->
                            <<items[i][1], FString(items[i][2])>>]]

\* pd.DataFrame(list(stats.items()), columns=["Metric", "Value"])
FastpProcessFile(p) ==
    LET extracted == ExtractStatistics(p.content[1].value)
    IN  IF extracted.status # "ok" THEN extracted
        ELSE Returned([i \in DOMAIN extracted.stats |->
                          [idx |-> i - 1, Metric |-> extracted.stats[i][1],
                           Value |-> extracted.stats[i][2]]])

InitFastp ==
    /\ scenario = "fastp"
    /\ pc = "start"
    /\ path \in {MissingPath, DirectoryPath, RegularFile(<<>>),
                 RegularFile(<<NotJson>>)}
                \cup {RegularFile(<<JsonText(d)>>) : d \in FastpDocuments}
    /\ processed = None
    /\ processor = None /\ data = None /\ level = None /\ cutoff = None
    /\ max_entries = None /\ virus_only = None
    /\ result = None /\ result2 = None
    /\ contigs_df = None /\ row = None /\ matches = None
    /\ temp_file = None /\ invocations = None /\ running = None
    /\ DEFAULT_CONFIG = None /\ configs = None /\ calls = None
    /\ generated = None /\ config = None /\ config_dict = None
    /\ restored = None /\ arguments = None

\* FastpProcessor().process(path)
FastpProcess ==
    /\ scenario = "fastp"
    /\ UNCHANGED reportVars
    /\ pc = "start"
    /\ processed' = BaseProcess(FastpValidateInput(path),
                                IF FastpValidateInput(path) = "ok"
                                THEN FastpProcessFile(path) ELSE None)
    /\ pc' = "done"
    /\ UNCHANGED <<scenario, path, processor, data, level, cutoff,
                   max_entries, virus_only, result, result2>>
    /\ UNCHANGED blastVars

NextFastp == FastpProcess

SpecFastp == InitFastp /\ [][NextFastp]_vars

(***************************************************************************)
(* KaijuProcessor and BlastProcessor: validate_input, _process_file.       *)
(* The first line of the file names the columns, the lines after it are    *)
(* the rows.                                                               *)
(***************************************************************************)
HeaderLine(columns) == [columns |-> columns]

\* A file of nothing but a line break.
BlankLine == [blank |-> TRUE]

Range(seq) == {seq[i] : i \in DOMAIN seq}

\* The lines after the first.
AllButFirst(lines) == [i \in 1..(Len(lines) - 1) |-> lines[i + 1]]

KaijuFiles ==
    {<<HeaderLine(<<"percent", "taxon_name">>)>> \o t :
        t \in UNION {[1..n -> KaijuRows] : n \in 0..1}}
    \cup {<<HeaderLine(<<"taxon_name">>), [taxon_name |-> <<"VirusA">>]>>}

KaijuValidateInput(p) ==
    IF BaseValidateInput(p) # "ok" THEN BaseValidateInput(p)
    ELSE IF ~({"percent", "taxon_name"} \subseteq Range(p.content[1].columns))
         THEN "DataProcessingError"
         ELSE "ok"

KaijuProcessFile(p) ==
    LET df == WithIndex(AllButFirst(p.content))
    IN  IF "percent" \notin Range(p.content[1].columns)
        THEN Raised("AttributeError")
        ELSE Returned([i \in DOMAIN df |->
                          [df[i] EXCEPT !.percent = Div100(@)]])

BlastFiles ==
    {<<HeaderLine(<<"name", "sequence">>)>> \o t :
        t \in UNION {[1..n -> ContigRows] : n \in 0..1}}
    \cup {<<BlankLine>>}

\* pd.read_csv(file_path, nrows=5) finds no columns in a blank file.
BlastValidateInput(p) ==
    IF BaseValidateInput(p) # "ok" THEN BaseValidateInput(p)
    ELSE IF p.content[1] = BlankLine THEN "DataProcessingError"
    ELSE "ok"

BlastProcessFile(p) ==
    IF p.content[1] = BlankLine THEN Raised("EmptyDataError")
    ELSE Returned(WithIndex(AllButFirst(p.content)))

(***************************************************************************)
(* validate_input and process of every processor, called on a path.        *)
(***************************************************************************)
Processors == {"kraken", "kaiju", "blast", "fastp", "flagstat"}

\* self.validate_input(file_path)
ValidateInput(proc, p) ==
    CASE proc = "kraken" -> KrakenValidateInput(p)
      [] proc = "kaiju" -> KaijuValidateInput(p)
      [] proc = "blast" -> BlastValidateInput(p)
      [] proc = "fastp" -> FastpValidateInput(p)
      [] proc = "flagstat" -> FlagstatValidateInput(p)

\* self._process_file(file_path)
ProcessFile(proc, p) ==
    CASE proc = "kraken" -> KrakenProcessFile(p)
      [] proc = "kaiju" -> KaijuProcessFile(p)
      [] proc = "blast" -> BlastProcessFile(p)
      [] proc = "fastp" -> FastpProcessFile(p)
      [] proc = "flagstat" -> FlagstatProcessFile(p)

\* What the files of a processor's format hold.
ContentsFor(proc) ==
    CASE proc = "kraken" ->
             UNION {[1..n -> KrakenFileRows \cup {KrakenShortRow}] : n \in 1..1}
      [] proc = "kaiju" -> KaijuFiles
      [] proc = "blast" -> BlastFiles
      [] proc = "fastp" ->
             {<<NotJson>>} \cup {<<JsonText(d)>> : d \in FastpDocuments}
      [] proc = "flagstat" -> UNION {[1..n -> FlagstatLines] : n \in 1..1}

InitValidation ==
    /\ scenario = "validation"
    /\ pc = "start"
    /\ processor \in Processors
    /\ path \in {MissingPath, DirectoryPath, RegularFile(<<>>)}
                \cup {RegularFile(c) : c \in ContentsFor(processor)}
    /\ result = None
    /\ processed = None
    /\ data = None /\ level = None /\ cutoff = None
    /\ max_entries = None /\ virus_only = None /\ result2 = None
    /\ contigs_df = None /\ row = None /\ matches = None
    /\ temp_file = None /\ invocations = None /\ running = None
    /\ DEFAULT_CONFIG = None /\ configs = None /\ calls = None
    /\ generated = None /\ config = None /\ config_dict = None
    /\ restored = None /\ arguments = None

\* processor.validate_input(path)
ValidateInputCall ==
    /\ scenario = "validation"
    /\ UNCHANGED reportVars
    /\ pc = "start"
    /\ result' = IF ValidateInput(processor, path) = "ok"
                 THEN [status |-> "ok", value |-> TRUE]
                 ELSE Raised(ValidateInput(processor, path))
    /\ pc' = "validated"
    /\ UNCHANGED <<scenario, path, processor, processed, data, level, cutoff,
                   max_entries, virus_only, result2>>
    /\ UNCHANGED blastVars

\* processor.process(path)
ProcessCall ==
    /\ scenario = "validation"
    /\ UNCHANGED reportVars
    /\ pc \in {"start", "validated"}
    /\ processed' = BaseProcess(ValidateInput(processor, path),
                                IF ValidateInput(processor, path) = "ok"
                                THEN ProcessFile(processor, path) ELSE None)
    /\ pc' = "done"
    /\ UNCHANGED <<scenario, path, processor, result, data, level, cutoff,
                   max_entries, virus_only, result2>>
    /\ UNCHANGED blastVars

NextValidation == ValidateInputCall \/ ProcessCall

SpecValidation == InitValidation /\ [][NextValidation]_vars

(***************************************************************************)
(* DefaultConfig (src/reporthanter/core/config.py).  A JSON value is       *)
(* Scalar(text) or Dict(function from keys to values).  The instances      *)
(* share the section objects of the class attribute: copy() copies the     *)
(* top-level dict only.  An instance is therefore the keys of its own      *)
(* top-level dict that still hold the class's section object (shared) and  *)
(* the keys that hold a value of its own (own).                            *)
(***************************************************************************)
MaxConfigs == 2

Scalar(text) == [scalar |-> text]
Dict(items) == [dict |-> items]

\* isinstance(value, dict)
IsDict(value) == "dict" \in DOMAIN value

\* The literal DEFAULT_CONFIG is bound to when the class is created.
BuiltInDefaults ==
    [plotting |-> Dict([width |-> Scalar("container"),
                        height |-> Scalar("400"),
                        color_scheme |-> Scalar("dark2")]),
     filtering |-> Dict([kraken |-> Dict([level |-> Scalar("species"),
                                          cutoff |-> Scalar("0.01"),
                                          max_entries |-> Scalar("10"),
                                          virus_only |-> Scalar("True")]),
                         kaiju |-> Dict([cutoff |-> Scalar("0.01"),
                                         max_entries |-> Scalar("10")])]),
     report |-> Dict([template |-> Scalar("fast"),
                      theme |-> Scalar("modern"),
                      header_color |-> Scalar("#04c273"),
                      header_bg_color |-> Scalar("#011a01")]),
     logging |-> Dict([level |-> Scalar("INFO"),
                       format |-> Scalar("%(asctime)s [%(levelname)s] %(name)s: %(message)s")])]

\* The JSON objects a user config file may hold.
UserConfigs ==
    { EmptyDict,
      [plotting |-> Dict([width |-> Scalar("500px"), height |-> Scalar("300")]),
       new_section |-> Dict([new_key |-> Scalar("new_value")])],
      [plotting |-> Dict([height |-> Scalar("300")])],
      [filtering |-> Dict([kraken |-> Dict([cutoff |-> Scalar("0.05"),
                                            max_entries |-> Scalar("5")])])],
      [filtering |-> Dict([kaiju |-> Dict([cutoff |-> Scalar("0.2")])])],
      [plotting |-> Scalar("wide")],
      [report |-> Dict([theme |-> Dict([name |-> Scalar("dark")])])],
      "filtering.kraken" :> Dict([cutoff |-> Scalar("0.05")]),
      "filtering.kaiju" :> Dict([level |-> Scalar("genus")]) }

\* The config_file argument: None, a path where nothing is, a file holding a
\* JSON object, a file holding a JSON array, a file json.load cannot parse.
NoConfigFile == [given |-> FALSE, exists |-> FALSE, kind |-> "none", value |-> EmptyDict]
MissingConfigFile == [given |-> TRUE, exists |-> FALSE, kind |-> "none", value |-> EmptyDict]
ConfigFile(user_config) ==
    [given |-> TRUE, exists |-> TRUE, kind |-> "object", value |-> user_config]
ArrayConfigFile == [given |-> TRUE, exists |-> TRUE, kind |-> "array", value |-> EmptyDict]
InvalidConfigFile == [given |-> TRUE, exists |-> TRUE, kind |-> "invalid", value |-> EmptyDict]

ConfigFiles ==
    {NoConfigFile, MissingConfigFile, ArrayConfigFile, InvalidConfigFile}
        \cup {ConfigFile(u) : u \in UserConfigs}

\* _merge_config(base, update), as the dict base is after the call.
RECURSIVE MergeConfig(_, _)
MergeConfig(base, update) ==
    [k \in DOMAIN base \cup DOMAIN update |->
        IF k \notin DOMAIN update THEN base[k]
        ELSE IF k \in DOMAIN base /\ IsDict(base[k]) /\ IsDict(update[k])
             THEN Dict(MergeConfig(base[k].dict, update[k].dict))
             ELSE update[k]]

\* self.DEFAULT_CONFIG.copy(): a new top-level dict whose values are the
\* section objects of the class attribute.
ShallowCopy(defaults) == [shared |-> DOMAIN defaults, own |-> EmptyDict]

\* The top-level keys of update that _merge_config merges into a section
\* object the instance shares with the class attribute.
MergedInPlace(defaults, instance, update) ==
    {k \in DOMAIN update \cap instance.shared :
        IsDict(defaults[k]) /\ IsDict(update[k])}

\* The class attribute after _merge_config(self.config, update).
DefaultsAfterMerge(defaults, instance, update) ==
    [k \in DOMAIN defaults |->
        IF k \in MergedInPlace(defaults, instance, update)
        THEN Dict(MergeConfig(defaults[k].dict, update[k].dict))
        ELSE defaults[k]]

\* The instance after _merge_config(self.config, update).
InstanceAfterMerge(defaults, instance, update) ==
    LET assigned == DOMAIN update \ MergedInPlace(defaults, instance, update)
        merged == MergeConfig(instance.own, Restrict(update, assigned))
    IN  [shared |-> instance.shared \ assigned, own |-> merged]

\* self.config, as a dict, when the class attribute is defaults.
ConfigOf(defaults, instance) ==
    [k \in instance.shared \cup DOMAIN instance.own |->
        IF k \in DOMAIN instance.own THEN instance.own[k] ELSE defaults[k]]

\* What DefaultConfig(config_file) raises, or "ok".
ConstructOutcome(config_file) ==
    IF ~(config_file.given /\ config_file.exists) THEN "ok"
    ELSE IF config_file.kind = "invalid" THEN "ConfigurationError"
    ELSE IF config_file.kind = "array" THEN "AttributeError"
    ELSE "ok"

\* key.split('.')
RECURSIVE SplitFrom(_, _, _)
SplitFrom(key, start, i) ==
    IF i > Len(key) THEN <<SubSeq(key, start, Len(key))>>
    ELSE IF SubSeq(key, i, i) = "."
         THEN <<SubSeq(key, start, i - 1)>> \o SplitFrom(key, i + 1, i + 1)
         ELSE SplitFrom(key, start, i + 1)

SplitDots(key) == SplitFrom(key, 1, 1)

\* value = value[k] for k in keys: the value, or the exception.
RECURSIVE Subscript(_, _)
Subscript(value, keys) ==
    IF keys = <<>> THEN [status |-> "ok", value |-> value]
    ELSE IF ~IsDict(value) THEN Raised("TypeError")
    ELSE IF Head(keys) \notin DOMAIN value.dict THEN Raised("KeyError")
    ELSE Subscript(value.dict[Head(keys)], Tail(keys))

\* get(key, default) that lets the TypeError of a value that is no dict out.
ConfigGetKeyErrorOnly(self_config, key, default) ==
    LET found == Subscript(Dict(self_config), SplitDots(key))
    IN  IF found.status = "ok" THEN found
        ELSE IF found.status = "KeyError" THEN [status |-> "ok", value |-> default]
        ELSE found

\* DefaultConfig.get(key, default)
ConfigGet(self_config, key, default) ==
    LET found == Subscript(Dict(self_config), SplitDots(key))
    IN  IF found.status = "ok" THEN found
        ELSE IF found.status \in {"KeyError", "TypeError"}
             THEN [status |-> "ok", value |-> default]
             ELSE found

\* DefaultConfig.get_config(section): self.config.get(section, {})
GetConfig(self_config, section) ==
    IF section # ""
    THEN Get(self_config, section, Dict(EmptyDict))
    ELSE Dict(self_config)

\* The keys get is called with.
GetKeys ==
    {"plotting.width", "plotting", "filtering.kraken.level", "nonexistent.key",
     "plotting.width.inner", "plotting.missing", "new_section.new_key",
     "report.theme.name", ""}

\* The defaults get is called with: None when none is supplied.
GetDefaults == {None, Scalar("default")}

\* The keyword parameters of filter_data and their defaults.
KrakenFilterDefaults ==
    [level |-> Scalar("species"), cutoff |-> Scalar("0.01"),
     max_entries |-> Scalar("10"), virus_only |-> Scalar("True")]
KaijuFilterDefaults ==
    [cutoff |-> Scalar("0.01"), max_entries |-> Scalar("10")]

\* The call f(data, <keywords>, **kwargs) of a function whose keyword
\* parameters and defaults are signature: the arguments the body sees, or
\* the TypeError of kwargs that is no mapping, repeats a keyword or names no
\* parameter.
BindCall(signature, keywords, kwargs) ==
    IF ~IsDict(kwargs) THEN Raised("TypeError")
    ELSE IF DOMAIN kwargs.dict \cap DOMAIN keywords # {} THEN Raised("TypeError")
    ELSE IF ~(DOMAIN kwargs.dict \subseteq DOMAIN signature) THEN Raised("TypeError")
    ELSE [status |-> "ok",
          arguments |-> [k \in DOMAIN signature |->
                            IF k \in DOMAIN keywords THEN keywords[k]
                            ELSE IF k \in DOMAIN kwargs.dict THEN kwargs.dict[k]
                            ELSE signature[k]]]

\* The filter_data calls of RawClassificationSection.generate_section, in
\* order, each as the arguments it binds or the exception of the call.
FilterDataCalls(self_config) ==
    LET kraken_config == GetConfig(self_config, "filtering.kraken")
        kaiju_config == GetConfig(self_config, "filtering.kaiju")
    IN  << BindCall(KrakenFilterDefaults,
                    [virus_only |-> Scalar("True")], kraken_config),
           BindCall(KrakenFilterDefaults,
                    [level |-> Scalar("domain"), virus_only |-> Scalar("False")],
                    kraken_config),
           BindCall(KaijuFilterDefaults, EmptyDict, kaiju_config) >>

\* The calls up to and including the first that raises.
RECURSIVE UntilRaise(_)
UntilRaise(attempts) ==
    IF attempts = <<>> THEN <<>>
    ELSE IF Head(attempts).status # "ok" THEN <<Head(attempts)>>
    ELSE <<Head(attempts)>> \o UntilRaise(Tail(attempts))

InitConfig ==
    /\ scenario = "config"
    /\ pc = "constructing"
    /\ DEFAULT_CONFIG = BuiltInDefaults
    /\ configs = <<>>
    /\ calls = <<>>
    /\ result = None
    /\ processor = None /\ path = None /\ processed = None
    /\ data = None /\ level = None /\ cutoff = None
    /\ max_entries = None /\ virus_only = None /\ result2 = None
    /\ contigs_df = None /\ row = None /\ matches = None
    /\ temp_file = None /\ invocations = None /\ running = None
    /\ generated = None /\ config = None /\ config_dict = None
    /\ restored = None /\ arguments = None

\* DefaultConfig(config_file)
Construct(config_file) ==
    /\ scenario = "config"
    /\ pc = "constructing"
    /\ Len(configs) < MaxConfigs
    /\ LET copy == ShallowCopy(DEFAULT_CONFIG)
           loads == config_file.given /\ config_file.exists
           outcome == ConstructOutcome(config_file)
       IN  IF outcome # "ok"
           THEN /\ configs' = Append(configs,
                        [status |-> outcome, config_file |-> config_file])
                /\ UNCHANGED DEFAULT_CONFIG
           ELSE IF loads
           THEN /\ configs' = Append(configs,
                        [status |-> "ok", config_file |-> config_file,
                         instance |-> InstanceAfterMerge(DEFAULT_CONFIG, copy,
                                                         config_file.value)])
                /\ DEFAULT_CONFIG' = DefaultsAfterMerge(DEFAULT_CONFIG, copy,
                                                        config_file.value)
           ELSE /\ configs' = Append(configs,
                        [status |-> "ok", config_file |-> config_file,
                         instance |-> copy])
                /\ UNCHANGED DEFAULT_CONFIG
    /\ UNCHANGED <<scenario, pc, processor, data, level, cutoff, max_entries,
                   virus_only, result, result2, path, processed, blastVars,
                   calls, arguments, generated, config, config_dict,
                   restored>>

\* configs[i].get(key, default)
GetCall(i, key, default) ==
    /\ scenario = "config"
    /\ pc = "constructing"
    /\ i \in 1..Len(configs)
    /\ configs[i].status = "ok"
    /\ result' = [instance |-> i, key |-> key, default |-> default] @@
                 ConfigGet(ConfigOf(DEFAULT_CONFIG, configs[i].instance),
                           key, default)
    /\ pc' = "got"
    /\ UNCHANGED <<scenario, processor, data, level, cutoff, max_entries,
                   virus_only, result2, path, processed, blastVars,
                   reportVars>>

\* RawClassificationSection(configs[i]).generate_section on a Kraken file
\* and a Kaiju table that the processors accept: the filter_data calls it
\* makes, and whether it returns.
GenerateRawClassification(i) ==
    /\ scenario = "config"
    /\ pc = "constructing"
    /\ i \in 1..Len(configs)
    /\ configs[i].status = "ok"
    /\ LET made == UntilRaise(FilterDataCalls(
                        ConfigOf(DEFAULT_CONFIG, configs[i].instance)))
       IN  /\ calls' = made
           /\ result' = [instance |-> i, status |-> made[Len(made)].status]
    /\ pc' = "section"
    /\ UNCHANGED <<scenario, processor, data, level, cutoff, max_entries,
                   virus_only, result2, path, processed, blastVars,
                   DEFAULT_CONFIG, configs, arguments, generated, config,
                   config_dict, restored>>

NextConfig ==
    \/ \E f \in ConfigFiles : Construct(f)
    \/ \E i \in 1..MaxConfigs, key \in GetKeys, default \in GetDefaults :
            GetCall(i, key, default)
    \/ \E i \in 1..MaxConfigs : GenerateRawClassification(i)

SpecConfig == InitConfig /\ [][NextConfig]_vars

(***************************************************************************)
(* ReportGenerator.generate_report (src/reporthanter/report/generator.py)  *)
(* with the default configuration.  An argument is "absent" (None or ""),  *)
(* "good" (a file its processor accepts), "missing" (a path where nothing  *)
(* is) or "malformed" (a file its processor cannot parse).                 *)
(***************************************************************************)
FileArguments == {"absent", "good", "missing", "malformed"}
SecondaryArguments == {"absent", "good", "malformed"}
FolderArguments == {"absent", "folder", "missing"}

\* The sections, in the order generate_report generates them.
SectionOrder ==
    <<"alignment", "raw_classification", "contig_classification", "coverage">>

\* processor.process(file) of a file argument that is given.
ProcessOutcome(file) ==
    IF file = "missing" THEN "FileValidationError"
    ELSE IF file = "malformed" THEN "DataProcessingError"
    ELSE "ok"

\* The first exception of steps run one after the other, "ok" without one.
RECURSIVE FirstFailure(_)
FirstFailure(outcomes) ==
    IF outcomes = <<>> THEN "ok"
    ELSE IF Head(outcomes) # "ok" THEN Head(outcomes)
    ELSE FirstFailure(Tail(outcomes))

\* sections[name].generate_section(...): "ok", or the exception it raises.
SectionOutcome(name, args) ==
    CASE name = "alignment" ->
            IF args.flagstat_file = "absent" \/ args.fastp_json = "absent"
            THEN "ValueError"
            ELSE FirstFailure(<<ProcessOutcome(args.flagstat_file),
                                IF args.secondary_flagstat_file # "absent"
                                THEN ProcessOutcome(args.secondary_flagstat_file)
                                ELSE "ok",
                                ProcessOutcome(args.fastp_json)>>)
      [] name = "raw_classification" ->
            IF args.kraken_file = "absent" \/ args.kaiju_table = "absent"
            THEN "ValueError"
            ELSE FirstFailure(<<ProcessOutcome(args.kraken_file),
                                ProcessOutcome(args.kaiju_table)>>)
      [] name = "contig_classification" ->
            IF args.blastn_file = "absent" THEN "ValueError"
            ELSE ProcessOutcome(args.blastn_file)
      [] name = "coverage" ->
            IF args.coverage_folder = "absent" THEN "ValueError"
            ELSE IF args.coverage_folder = "missing" THEN "FileNotFoundError"
            ELSE "ok"

\* An exception of a section leaving generate_report as it is.
Propagated(exception) == exception

\* except Exception as e: raise ReportGenerationError(...)
Wrapped(exception) == "ReportGenerationError"

\* Where generate_report goes on after a section that returned.
Following(name) ==
    LET n == CHOOSE k \in 1..Len(SectionOrder) : SectionOrder[k] = name
    IN  IF n = Len(SectionOrder) THEN "layout" ELSE SectionOrder[n + 1]

InitReport ==
    /\ scenario = "report"
    /\ pc = SectionOrder[1]
    /\ arguments \in [blastn_file : FileArguments,
                      kraken_file : FileArguments,
                      kaiju_table : FileArguments,
                      fastp_json : FileArguments,
                      flagstat_file : FileArguments,
                      coverage_folder : FolderArguments,
                      secondary_flagstat_file : SecondaryArguments]
    /\ generated = <<>>
    /\ result = None
    /\ processor = None /\ path = None /\ processed = None
    /\ data = None /\ level = None /\ cutoff = None
    /\ max_entries = None /\ virus_only = None /\ result2 = None
    /\ contigs_df = None /\ row = None /\ matches = None
    /\ temp_file = None /\ invocations = None /\ running = None
    /\ DEFAULT_CONFIG = None /\ configs = None /\ calls = None
    /\ config = None /\ config_dict = None /\ restored = None

\* The next section of generate_report: it is generated, or its exception
\* ends generate_report with a ReportGenerationError.
GenerateSection ==
    /\ scenario = "report"
    /\ pc \in {SectionOrder[n] : n \in 1..Len(SectionOrder)}
    /\ LET name == pc
           outcome == SectionOutcome(name, arguments)
       IN  IF outcome = "ok"
           THEN /\ generated' = Append(generated, name)
                /\ pc' = Following(name)
                /\ UNCHANGED result
           ELSE /\ result' = [status |-> Wrapped(outcome), cause |-> outcome,
                              section |-> name]
                /\ pc' = "done"
                /\ UNCHANGED generated
    /\ UNCHANGED <<scenario, processor, data, level, cutoff, max_entries,
                   virus_only, result2, path, processed, blastVars,
                   DEFAULT_CONFIG, configs, calls, arguments, config,
                   config_dict, restored>>

\* The header, the tabs and the column of the four sections; return report.
ReturnReport ==
    /\ scenario = "report"
    /\ pc = "layout"
    /\ result' = [status |-> "ok", report |-> generated]
    /\ pc' = "done"
    /\ UNCHANGED <<scenario, processor, data, level, cutoff, max_entries,
                   virus_only, result2, path, processed, blastVars,
                   reportVars>>

NextReport == GenerateSection \/ ReturnReport

SpecReport == InitReport /\ [][NextReport]_vars

(***************************************************************************)
(* VisualizationConfig (src/reporthanter/visualization/config.py).  A      *)
(* field holds an Enum member, Member(enum, value), or a str, int, float   *)
(* or bool, Scalar(text); a dataclass instance is the record of its        *)
(* fields, a dict is Dict(items).  ChartType.BAR and "bar" are different   *)
(* values: an Enum member equals no string.                                *)
(***************************************************************************)
Member(enum, value) == [enum |-> enum, value |-> value]
IsMember(value) == "enum" \in DOMAIN value

PlotConfigDefaults ==
    [chart_type |-> Member("ChartType", "bar"),
     color_scheme |-> Member("ColorScheme", "category10"),
     width |-> Scalar("container"), height |-> Scalar("400"),
     opacity |-> Scalar("0.8"), show_legend |-> Scalar("True"),
     show_grid |-> Scalar("True"), animate |-> Scalar("False"),
     interactive |-> Scalar("True")]

LayoutConfigDefaults ==
    [template |-> Member("LayoutTemplate", "scientific"),
     responsive |-> Scalar("True"), sidebar_width |-> Scalar("300"),
     grid_columns |-> Scalar("2"), card_style |-> Scalar("True"),
     show_filters |-> Scalar("True"), show_export |-> Scalar("True")]

ThemeConfigDefaults ==
    [primary_color |-> Scalar("#1f77b4"), secondary_color |-> Scalar("#ff7f0e"),
     background_color |-> Scalar("#ffffff"), text_color |-> Scalar("#333333"),
     font_family |-> Scalar("Arial, sans-serif"), font_size_base |-> Scalar("12"),
     border_radius |-> Scalar("4"), shadow |-> Scalar("True")]

\* The generated __init__ of a dataclass called with **kwargs: the instance,
\* or the TypeError of kwargs that is no mapping or names no field.
New(defaults, kwargs) ==
    IF ~IsDict(kwargs) THEN Raised("TypeError")
    ELSE IF ~(DOMAIN kwargs.dict \subseteq DOMAIN defaults) THEN Raised("TypeError")
    ELSE [status |-> "ok",
          value |-> [k \in DOMAIN defaults |->
                        IF k \in DOMAIN kwargs.dict THEN kwargs.dict[k]
                        ELSE defaults[k]]]

PlotConfig(kwargs) == New(PlotConfigDefaults, Dict(kwargs)).value
LayoutConfig(kwargs) == New(LayoutConfigDefaults, Dict(kwargs)).value
ThemeConfig(kwargs) == New(ThemeConfigDefaults, Dict(kwargs)).value

PlotFields == {"kraken", "kaiju", "blast", "quality"}
ConfigFields == PlotFields \cup {"layout", "theme"}

\* What __post_init__ puts in a field that is None.
PostInitDefaults ==
    [kraken |-> PlotConfig([chart_type |-> Member("ChartType", "bar"),
                            color_scheme |-> Member("ColorScheme", "viridis")]),
     kaiju |-> PlotConfig([chart_type |-> Member("ChartType", "donut"),
                           color_scheme |-> Member("ColorScheme", "plasma")]),
     blast |-> PlotConfig([chart_type |-> Member("ChartType", "bar"),
                           color_scheme |-> Member("ColorScheme", "nature")]),
     quality |-> PlotConfig([chart_type |-> Member("ChartType", "gauge"),
                             color_scheme |-> Member("ColorScheme", "cell")]),
     layout |-> LayoutConfig(EmptyDict),
     theme |-> ThemeConfig(EmptyDict)]

\* VisualizationConfig(**given)
VisualizationConfig(given) ==
    [k \in ConfigFields |->
        IF k \in DOMAIN given THEN given[k] ELSE PostInitDefaults[k]]

NaturePlot(height) ==
    PlotConfig([chart_type |-> Member("ChartType", "bar"),
                color_scheme |-> Member("ColorScheme", "nature"),
                height |-> Scalar(height)])
Dark2Plot ==
    PlotConfig([chart_type |-> Member("ChartType", "bar"),
                color_scheme |-> Member("ColorScheme", "dark2"),
                opacity |-> Scalar("0.6")])

\* VisualizationConfigManager.PRESETS
PRESETS ==
    [scientific |-> VisualizationConfig(
        [kraken |-> NaturePlot("450"), kaiju |-> NaturePlot("450"),
         blast |-> NaturePlot("350"),
         layout |-> LayoutConfig([template |-> Member("LayoutTemplate", "scientific"),
                                  grid_columns |-> Scalar("1")]),
         theme |-> ThemeConfig([primary_color |-> Scalar("#2E8B57"),
                                font_family |-> Scalar("Times, serif")])]),
     executive |-> VisualizationConfig(
        [kraken |-> PlotConfig([chart_type |-> Member("ChartType", "dashboard"),
                                color_scheme |-> Member("ColorScheme", "category20")]),
         kaiju |-> PlotConfig([chart_type |-> Member("ChartType", "donut"),
                               color_scheme |-> Member("ColorScheme", "category20")]),
         blast |-> PlotConfig([chart_type |-> Member("ChartType", "heatmap"),
                               color_scheme |-> Member("ColorScheme", "viridis")]),
         layout |-> LayoutConfig([template |-> Member("LayoutTemplate", "executive"),
                                  grid_columns |-> Scalar("3")]),
         theme |-> ThemeConfig([primary_color |-> Scalar("#1f77b4"),
                                shadow |-> Scalar("True")])]),
     minimal |-> VisualizationConfig(
        [kraken |-> Dark2Plot, kaiju |-> Dark2Plot, blast |-> Dark2Plot,
         layout |-> LayoutConfig([template |-> Member("LayoutTemplate", "minimal"),
                                  card_style |-> Scalar("False")]),
         theme |-> ThemeConfig([background_color |-> Scalar("#f8f9fa"),
                                shadow |-> Scalar("False")])]),
     publication |-> VisualizationConfig(
        [kraken |-> NaturePlot("500"), kaiju |-> NaturePlot("500"),
         blast |-> NaturePlot("400"),
         layout |-> LayoutConfig([template |-> Member("LayoutTemplate", "scientific"),
                                  responsive |-> Scalar("False")]),
         theme |-> ThemeConfig([primary_color |-> Scalar("#000000"),
                                background_color |-> Scalar("#ffffff"),
                                font_family |-> Scalar("Arial, sans-serif"),
                                font_size_base |-> Scalar("14")])])]

\* The preset names the manager is asked for.
PresetNames == DOMAIN PRESETS \cup {"unknown"}

\* The overrides create_custom_preset is called with.
Overrides ==
    { EmptyDict,
      [kraken |-> Dict([height |-> Scalar("600")])],
      [kraken |-> Dict([chart_type |-> Scalar("donut")]),
       theme |-> Dict([shadow |-> Scalar("False")])],
      [layout |-> Dict([grid_columns |-> Scalar("4")])],
      [layout |-> Dict([template |-> Scalar("minimal")])],
      [theme |-> Dict([primary_color |-> Scalar("#000000")])],
      [kaiju |-> Dict([colour |-> Scalar("red")])],
      [blast |-> Scalar("bar")] }

\* PlotConfig.to_dict(): self.chart_type.value of a field that holds a str
\* raises AttributeError.
PlotToDict(plot) ==
    IF ~IsMember(plot.chart_type) \/ ~IsMember(plot.color_scheme)
    THEN Raised("AttributeError")
    ELSE [status |-> "ok",
          value |-> Dict([k \in DOMAIN plot |->
                            IF k \in {"chart_type", "color_scheme"}
                            THEN Scalar(plot[k].value)
                            ELSE plot[k]])]

\* LayoutConfig.to_dict() and ThemeConfig.to_dict(): asdict(self), which
\* keeps an Enum member as it is.
AsDict(instance) == Dict(instance)

\* VisualizationConfig.to_dict()
ToDict(c) ==
    IF \E k \in PlotFields : PlotToDict(c[k]).status # "ok"
    THEN Raised("AttributeError")
    ELSE [status |-> "ok",
          value |-> Dict([k \in ConfigFields |->
                            IF k \in PlotFields THEN PlotToDict(c[k]).value
                            ELSE AsDict(c[k])])]

\* The field defaults of the class from_dict builds for a key.
DefaultsOf(k) ==
    IF k \in PlotFields THEN PlotConfigDefaults
    ELSE IF k = "layout" THEN LayoutConfigDefaults
    ELSE ThemeConfigDefaults

\* VisualizationConfig.from_dict(config_dict)
FromDict(d) ==
    LET present == ConfigFields \cap DOMAIN d.dict
        built == [k \in present |-> New(DefaultsOf(k), d.dict[k])]
    IN  IF \E k \in present : built[k].status # "ok"
        THEN Raised("ConfigurationError")
        ELSE [status |-> "ok",
              value |-> VisualizationConfig([k \in present |-> built[k].value])]

\* _deep_update(base_dict, update_dict), as base_dict is after the call.
RECURSIVE DeepUpdate(_, _)
DeepUpdate(base_dict, update_dict) ==
    [k \in DOMAIN base_dict \cup DOMAIN update_dict |->
        IF k \notin DOMAIN update_dict THEN base_dict[k]
        ELSE IF IsDict(update_dict[k]) /\ k \in DOMAIN base_dict
                /\ IsDict(base_dict[k])
             THEN Dict(DeepUpdate(base_dict[k].dict, update_dict[k].dict))
             ELSE update_dict[k]]

\* create_custom_preset(name, base_preset, overrides)
CreateCustomPreset(base_preset, overrides) ==
    IF base_preset \notin DOMAIN PRESETS THEN Raised("ConfigurationError")
    ELSE IF overrides # EmptyDict
    THEN FromDict(Dict(DeepUpdate(ToDict(PRESETS[base_preset]).value.dict,
                                  overrides)))
    ELSE [status |-> "ok", value |-> PRESETS[base_preset]]

\* json.dump accepts the value: no Enum member in it.
RECURSIVE JsonSerializable(_)
JsonSerializable(value) ==
    IF IsDict(value)
    THEN \A k \in DOMAIN value.dict : JsonSerializable(value.dict[k])
    ELSE ~IsMember(value)

\* save_config(config, file_path) on a path that can be written: only an
\* IOError is caught.
SaveConfig(c) ==
    LET d == ToDict(c)
    IN  IF d.status # "ok" THEN d
        ELSE IF ~JsonSerializable(d.value) THEN Raised("TypeError")
        ELSE [status |-> "ok"]

InitVisualization ==
    /\ scenario = "visualization"
    /\ pc = "start"
    /\ config = None
    /\ config_dict = None
    /\ restored = None
    /\ result = None
    /\ result2 = None
    /\ processor = None /\ path = None /\ processed = None
    /\ data = None /\ level = None /\ cutoff = None
    /\ max_entries = None /\ virus_only = None
    /\ contigs_df = None /\ row = None /\ matches = None
    /\ temp_file = None /\ invocations = None /\ running = None
    /\ DEFAULT_CONFIG = None /\ configs = None /\ calls = None
    /\ arguments = None /\ generated = None

\* config = VisualizationConfig()
DefaultVisualizationConfig ==
    /\ scenario = "visualization"
    /\ pc = "start"
    /\ config' = [status |-> "ok", value |-> VisualizationConfig(EmptyDict),
                  overrides |-> EmptyDict]
    /\ pc' = "config"
    /\ UNCHANGED <<scenario, processor, data, level, cutoff, max_entries,
                   virus_only, result, result2, path, processed, blastVars,
                   DEFAULT_CONFIG, configs, calls, arguments, generated,
                   config_dict, restored>>

\* config = manager.create_custom_preset(name, base_preset, overrides)
CreateCustomPresetCall(base_preset, overrides) ==
    /\ scenario = "visualization"
    /\ pc = "start"
    /\ LET created == CreateCustomPreset(base_preset, overrides)
       IN  /\ config' = created @@ [overrides |-> overrides]
           /\ pc' = IF created.status = "ok" THEN "config" ELSE "done"
    /\ UNCHANGED <<scenario, processor, data, level, cutoff, max_entries,
                   virus_only, result, result2, path, processed, blastVars,
                   DEFAULT_CONFIG, configs, calls, arguments, generated,
                   config_dict, restored>>

\* config_dict = config.to_dict()
ToDictCall ==
    /\ scenario = "visualization"
    /\ pc = "config"
    /\ config_dict' = ToDict(config.value)
    /\ pc' = "dict"
    /\ UNCHANGED <<scenario, processor, data, level, cutoff, max_entries,
                   virus_only, result, result2, path, processed, blastVars,
                   DEFAULT_CONFIG, configs, calls, arguments, generated,
                   config, restored>>

\* restored = VisualizationConfig.from_dict(config_dict)
FromDictCall ==
    /\ scenario = "visualization"
    /\ pc = "dict"
    /\ config_dict.status = "ok"
    /\ restored' = FromDict(config_dict.value)
    /\ pc' = "restored"
    /\ UNCHANGED <<scenario, processor, data, level, cutoff, max_entries,
                   virus_only, result, result2, path, processed, blastVars,
                   DEFAULT_CONFIG, configs, calls, arguments, generated,
                   config, config_dict>>

\* restored.to_dict()
ToDictAgainCall ==
    /\ scenario = "visualization"
    /\ pc = "restored"
    /\ restored.status = "ok"
    /\ result' = ToDict(restored.value)
    /\ pc' = "again"
    /\ UNCHANGED <<scenario, processor, data, level, cutoff, max_entries,
                   virus_only, result2, path, processed, blastVars,
                   reportVars>>

\* manager.save_config(config, file_path)
SaveConfigCall ==
    /\ scenario = "visualization"
    /\ pc \in {"config", "dict", "restored", "again"}
    /\ result2 = None
    /\ result2' = SaveConfig(config.value)
    /\ UNCHANGED <<scenario, pc, processor, data, level, cutoff, max_entries,
                   virus_only, result, path, processed, blastVars,
                   reportVars>>

NextVisualization ==
    \/ DefaultVisualizationConfig
    \/ \E base_preset \in PresetNames, overrides \in Overrides :
            CreateCustomPresetCall(base_preset, overrides)
    \/ ToDictCall
    \/ FromDictCall
    \/ ToDictAgainCall
    \/ SaveConfigCall

SpecVisualization == InitVisualization /\ [][NextVisualization]_vars

(***************************************************************************)
(* Claims about KrakenProcessor.process (checked under SpecKraken).        *)
(***************************************************************************)
\* core is nm without its leading and trailing blanks.
IsStripOf(core, nm) ==
    \E a, b \in 0..Len(nm) :
        /\ a + Len(core) + b = Len(nm)
        /\ \A k \in 1..a : nm[k] = " "
        /\ \A k \in (Len(nm) - b + 1)..Len(nm) : nm[k] = " "
        /\ core = SubSeq(nm, a + 1, a + Len(core))
        /\ core # <<>> => (core[1] # " " /\ core[Len(core)] # " ")

Latest(S) == CHOOSE j \in S : \A k \in S : k <= j

\* The name line j of the file gives, missing when the line stops before it.
NameInFile(j) ==
    IF "name" \in DOMAIN path.content[j] THEN path.content[j].name ELSE NA_str

\* The rows of the file at or before row i that carry a rank code D, U or R.
RankRowsUpTo(i) == {j \in 1..i : path.content[j].tax_lvl \in {"D", "U", "R"}}

\* C2 as claimed: the domain of every row is the stripped name of the nearest
\* row at or before it whose rank code is D, U or R (the name as the file
\* gives it, or as the returned table gives it), and is unset for a row with
\* no such row at or before it.
C2_DomainIsNearestRankName ==
    (pc = "done" /\ processed.status = "ok") =>
        \A i \in DOMAIN processed.df :
            IF RankRowsUpTo(i) = {}
            THEN processed.df[i].domain = NA_str
            ELSE LET j == Latest(RankRowsUpTo(i))
                 IN  \/ processed.df[i].domain = processed.df[j].name
                     \/ /\ NameInFile(j) = NA_str
                        /\ processed.df[i].domain = NA_str
                     \/ /\ NameInFile(j) # NA_str
                        /\ IsStripOf(processed.df[i].domain, NameInFile(j))

\* The rows at or before row i that carry a rank code D, U or R and a name.
NamedRankRowsUpTo(i) ==
    {j \in RankRowsUpTo(i) : NameInFile(j) # NA_str}

\* C2 as amended: the domain of every row is the stripped name of the nearest
\* row at or before it whose rank code is D, U or R and whose name is not
\* missing, and is unset for a row with no such row at or before it (a D, U
\* or R row without a name takes the domain carried from above, like any
\* other row).
C2_DomainIsNearestNamedRankName ==
    (pc = "done" /\ processed.status = "ok") =>
        \A i \in DOMAIN processed.df :
            IF NamedRankRowsUpTo(i) = {}
            THEN processed.df[i].domain = NA_str
            ELSE /\ processed.df[i].domain # NA_str
                 /\ IsStripOf(processed.df[i].domain,
                              NameInFile(Latest(NamedRankRowsUpTo(i))))

\* A processed file with a row before the first D/U/R row, whose domain is
\* unset, and a species row below a domain row whose name the file pads with
\* blanks, which took the stripped name as its domain.
C2_Witness ==
    /\ pc = "done"
    /\ processed.status = "ok"
    /\ \E i \in DOMAIN processed.df :
           /\ RankRowsUpTo(i) = {}
           /\ processed.df[i].domain = NA_str
    /\ \E i \in DOMAIN processed.df :
           /\ path.content[i].tax_lvl = "S"
           /\ RankRowsUpTo(i) # {}
           /\ NameInFile(Latest(RankRowsUpTo(i))) = <<" ", " ", "Viruses">>
           /\ processed.df[i].domain = <<"Viruses">>

(***************************************************************************)
(* Claims about filter_data (checked under SpecFilter).                    *)
(***************************************************************************)
\* The calls made so far, as <<input table, what the call returned>>.
FilterCalls ==
    (IF pc \in {"filtered", "refiltered"} THEN {<<data, result>>} ELSE {})
    \cup (IF pc = "refiltered" THEN {<<result.filtered_df, result2>>} ELSE {})

RowIn(frame, r) == \E i \in DOMAIN frame : frame[i] = r

DistinctLabels(frame) ==
    \A k, l \in DOMAIN frame : frame[k].idx = frame[l].idx => k = l

Descending(frame) ==
    \A k \in 1..(Len(frame) - 1) : frame[k].percent >= frame[k + 1].percent

MinOf(a, b) == IF a < b THEN a ELSE b

\* C1: for every input table, cutoff and max_entries >= 0, the table that
\* KrakenProcessor.filter_data or KaijuProcessor.filter_data returns has at
\* most max_entries rows, and every returned row has a fraction (a number)
\* strictly greater than the cutoff.
C1_AtMostMaxEntriesAboveCutoff ==
    \A c \in FilterCalls :
        c[2].status = "ok" =>
            /\ Len(c[2].filtered_df) <= max_entries
            /\ \A k \in DOMAIN c[2].filtered_df :
                   /\ c[2].filtered_df[k].percent # NaN
                   /\ c[2].filtered_df[k].percent > cutoff

\* A call that returned exactly max_entries > 0 rows from a table holding a
\* row at or below the cutoff.
C1_Witness ==
    /\ pc = "filtered"
    /\ result.status = "ok"
    /\ max_entries > 0
    /\ Len(result.filtered_df) = max_entries
    /\ \E i \in DOMAIN data : data[i].percent # NaN /\ data[i].percent <= cutoff

\* The Kraken rows the claim selects: rank code of the level, fraction above
\* the cutoff, and domain "Viruses" when virus_only is set.
KrakenSelected(df) ==
    {i \in DOMAIN df :
        /\ df[i].tax_lvl = TAXONOMY_LEVELS[level]
        /\ df[i].percent # NaN
        /\ df[i].percent > cutoff
        /\ (virus_only => df[i].domain = <<"Viruses">>)}

KrakenReturnsExactly(df, out) ==
    LET sel == KrakenSelected(df)
        kept == {i \in sel : RowIn(out.filtered_df, df[i])}
        firstUnclassified ==
            CHOOSE i \in DOMAIN df :
                /\ df[i].domain = <<"unclassified">>
                /\ \A j \in 1..(i - 1) : df[j].domain # <<"unclassified">>
    IN  /\ \A k \in DOMAIN out.filtered_df : \E i \in sel : out.filtered_df[k] = df[i]
        /\ DistinctLabels(out.filtered_df)
        /\ Len(out.filtered_df) = MinOf(max_entries, Cardinality(sel))
        /\ Descending(out.filtered_df)
        /\ \A i \in sel \ kept : \A j \in kept : df[j].percent >= df[i].percent
        /\ (\E i \in DOMAIN df : df[i].domain = <<"unclassified">>)
               => out.unclassified_pct = df[firstUnclassified].percent

\* C3: KrakenProcessor.filter_data returns exactly the rows of its input whose
\* rank code is that of the requested level and whose fraction > cutoff, only
\* those of domain "Viruses" when virus_only is set, ordered by fraction
\* descending and cut to the first max_entries; and with them the fraction of
\* the (first) row whose domain is "unclassified", which is a function of the
\* table alone.
C3_KrakenFilterExact ==
    processor = "kraken" =>
        \A c \in FilterCalls :
            c[2].status = "ok" => KrakenReturnsExactly(c[1], c[2])

\* A virus-only call that returned rows, on a table with an unclassified row
\* and a row of another domain at the level and above the cutoff.
C3_Witness ==
    /\ processor = "kraken"
    /\ pc = "filtered"
    /\ result.status = "ok"
    /\ virus_only = TRUE
    /\ Len(result.filtered_df) > 0
    /\ \E i \in DOMAIN data :
           /\ data[i].tax_lvl = TAXONOMY_LEVELS[level]
           /\ data[i].percent # NaN /\ data[i].percent > cutoff
           /\ data[i].domain # <<"Viruses">>
    /\ \E i \in DOMAIN data : data[i].domain = <<"unclassified">>
    /\ result.unclassified_pct = 300

KaijuSelected(df) ==
    {i \in DOMAIN df :
        /\ df[i].taxon_name # <<"unclassified">>
        /\ df[i].percent # NaN
        /\ df[i].percent > cutoff}

\* Row r is row s without its file column.
SameButFile(r, s) ==
    /\ DOMAIN r = (DOMAIN s) \ {"file"}
    /\ \A f \in DOMAIN r : r[f] = s[f]

KaijuReturnsExactly(df, out) ==
    LET sel == KaijuSelected(df)
        kept == {i \in sel : \E k \in DOMAIN out.filtered_df :
                                  SameButFile(out.filtered_df[k], df[i])}
    IN  /\ \A k \in DOMAIN out.filtered_df :
               \E i \in sel : SameButFile(out.filtered_df[k], df[i])
        /\ DistinctLabels(out.filtered_df)
        /\ Len(out.filtered_df) = MinOf(max_entries, Cardinality(sel))
        /\ Descending(out.filtered_df)
        /\ \A i \in sel \ kept : \A j \in kept : df[j].percent >= df[i].percent

\* C4: KaijuProcessor.filter_data returns exactly the input rows not named
\* "unclassified" whose fraction > cutoff, ordered by fraction descending, cut
\* to the first max_entries, without the file column; it raises nothing,
\* whether or not the input has a file column.
C4_KaijuFilterExact ==
    processor = "kaiju" =>
        \A c \in FilterCalls :
            /\ c[2].status = "ok"
            /\ KaijuReturnsExactly(c[1], c[2])

\* A call on a table with a file column and an unclassified row that had to
\* cut selected rows off.
C4_Witness ==
    /\ processor = "kaiju"
    /\ pc = "filtered"
    /\ result.status = "ok"
    /\ max_entries > 0
    /\ Cardinality(KaijuSelected(data)) > max_entries
    /\ \E i \in DOMAIN data :
           "file" \in DOMAIN data[i] /\ data[i].taxon_name = <<"unclassified">>

\* C5: re-filtering is idempotent: filter_data applied to the table it
\* returned, with the same parameters, returns an identical table.
C5_RefilterIdentical ==
    (pc = "refiltered" /\ result2.status = "ok")
        => result2.filtered_df = result.filtered_df

HasUnclassifiedRow(df) ==
    \E i \in DOMAIN df :
        IF processor = "kraken"
        THEN df[i].domain = <<"unclassified">>
        ELSE df[i].taxon_name = <<"unclassified">>

\* C6 as claimed: on a table with no unclassified row filter_data returns the
\* unclassified fraction 0.0 and raises no error, whatever the other
\* parameters are.
C6_NoUnclassifiedNeverRaises ==
    \A c \in FilterCalls :
        ~HasUnclassifiedRow(c[1]) =>
            c[2].status = "ok" /\ c[2].unclassified_pct = 0

\* C6 as amended: on a table with no unclassified row filter_data returns the
\* unclassified fraction 0.0 and raises no error, for every cutoff,
\* max_entries, virus_only and every level KrakenProcessor knows
\* (KrakenProcessor.filter_data raises ValueError for any other level,
\* before it looks at the table).
C6_NoUnclassifiedGivesZero ==
    \A c \in FilterCalls :
        (/\ ~HasUnclassifiedRow(c[1])
         /\ processor = "kraken" =>
                level \in {"domain", "phylum", "class", "order", "family",
                           "genus", "species"})
            => c[2].status = "ok" /\ c[2].unclassified_pct = 0

\* A call that returned rows from a non-empty table with no unclassified row.
C6_Witness ==
    /\ pc = "filtered"
    /\ Len(data) > 0
    /\ ~HasUnclassifiedRow(data)
    /\ result.status = "ok"
    /\ Len(result.filtered_df) > 0
    /\ result.unclassified_pct = 0

(***************************************************************************)
(* Claims about FlagstatProcessor.process (checked under SpecFlagstat).    *)
(***************************************************************************)
\* The lines of the file that a pattern matches.
MatchLines(kind) == {i \in DOMAIN path.content : path.content[i].kind = kind}

Earliest(S) == CHOOSE i \in S : \A k \in S : i <= k

\* The count captured by the first line of the file that the pattern matches.
FirstCount(kind) == path.content[Earliest(MatchLines(kind))].n

BothPatternsOccur ==
    /\ scenario = "flagstat"
    /\ path.exists /\ path.is_file
    /\ MatchLines("total") # {}
    /\ MatchLines("mapped") # {}

\* The value of a metric in the table process returned.
Metric(name) ==
    LET i == CHOOSE k \in DOMAIN processed.df : processed.df[k].metric = name
    IN  processed.df[i].value

\* C7: for every flagstat text in which both patterns occur with total > 0,
\* process returns a table whose total_reads is the count captured by the
\* first match of the total pattern, and whose percent_mapped is
\* mapped / total * 100 in float64, mapped being the count captured by the
\* first match of the mapped pattern; later matches have no effect.
C7_FirstMatchAndPercent ==
    (pc = "done" /\ BothPatternsOccur /\ FirstCount("total") > 0) =>
        /\ processed.status = "ok"
        /\ Metric("total_reads") = FloatOfInt(FirstCount("total"))
        /\ Metric("percent_mapped") =
               FloatMulInt(FloatDivInt(FloatOfInt(FirstCount("mapped")),
                                       FirstCount("total")), 100)

\* A file with two matches of the total pattern that capture different counts,
\* processed into a table with a percentage that is not a whole number.
C7_Witness ==
    /\ pc = "done"
    /\ BothPatternsOccur
    /\ FirstCount("total") = 3
    /\ FirstCount("mapped") = 1
    /\ \E i \in MatchLines("total") : path.content[i].n # FirstCount("total")
    /\ processed.status = "ok"
    /\ Metric("percent_mapped") # FloatZero

\* C8: in the table produced for a text with total > 0 and mapped <= total,
\* reads_mapped + reads_unmapped equals total_reads exactly.
C8_MappedPlusUnmappedIsTotal ==
    (/\ pc = "done"
     /\ BothPatternsOccur
     /\ FirstCount("total") > 0
     /\ FirstCount("mapped") <= FirstCount("total")
     /\ processed.status = "ok") =>
        FloatToInt(Metric("reads_mapped")) + FloatToInt(Metric("reads_unmapped"))
            = FloatToInt(Metric("total_reads"))

\* C9: for every flagstat text in which both patterns occur and the total is
\* 0, process raises nothing and the table's percent_mapped is 0.
C9_ZeroTotalGivesZeroPercent ==
    (pc = "done" /\ BothPatternsOccur /\ FirstCount("total") = 0) =>
        /\ processed.status = "ok"
        /\ Metric("percent_mapped") = FloatZero

\* A file whose first total is 0 and whose first mapped count is not.
C9_Witness ==
    /\ pc = "done"
    /\ BothPatternsOccur
    /\ FirstCount("total") = 0
    /\ FirstCount("mapped") > 0
    /\ processed.status = "ok"
    /\ Metric("percent_mapped") = FloatZero

\* A file was given and its text lacks a match for one of the two patterns.
LacksAMatch ==
    /\ scenario = "flagstat"
    /\ path.exists /\ path.is_file
    /\ (MatchLines("total") = {} \/ MatchLines("mapped") = {})

\* C10 as claimed: whenever the text lacks a match for the total pattern or
\* for the mapped pattern, process fails with DataProcessingError and returns
\* no table.
C10_MissingPatternIsDataProcessingError ==
    (pc = "done" /\ LacksAMatch) => processed.status = "DataProcessingError"

\* C10 as amended: whenever the text lacks a match for the total pattern or
\* for the mapped pattern, process returns no table; it fails with
\* DataProcessingError when the file is not empty and with
\* FileValidationError when the file is empty.
C10_MissingPatternFails ==
    (pc = "done" /\ LacksAMatch) =>
        processed.status = IF path.content = <<>> THEN "FileValidationError"
                           ELSE "DataProcessingError"

\* A file with a match for the total pattern and none for the mapped pattern.
C10_Witness ==
    /\ pc = "done"
    /\ LacksAMatch
    /\ MatchLines("total") # {}
    /\ MatchLines("mapped") = {}
    /\ processed.status = "DataProcessingError"

(***************************************************************************)
(* Claims about BlastProcessor.run_blastn (checked under SpecBlast).       *)
(***************************************************************************)
\* C11: on a contig table with zero rows run_blastn performs no external
\* invocation and creates no temporary file, and what it returns is that same
\* table.
C11_EmptyTableReturnedUntouched ==
    (scenario = "blast" /\ Len(contigs_df.rows) = 0) =>
        /\ invocations = <<>>
        /\ ~temp_file.created
        /\ pc = "done" => processed = [status |-> "ok", df |-> contigs_df]

\* The call has returned on a table with zero rows (and both columns).
C11_Witness ==
    /\ scenario = "blast"
    /\ pc = "done"
    /\ Len(contigs_df.rows) = 0
    /\ contigs_df.columns = <<"name", "sequence">>
    /\ processed.status = "ok"

\* The invocations that ended in a timeout or a non-zero exit status.
FailedInvocations ==
    {k \in DOMAIN invocations :
        /\ invocations[k].outcome # None
        /\ invocations[k].outcome.kind \in {"timeout", "nonzero"}}

\* No invocation raised anything but a timeout or a non-zero exit status.
NothingElseRaised ==
    \A k \in DOMAIN invocations :
        invocations[k].outcome # None =>
            invocations[k].outcome.kind \in {"completed", "timeout", "nonzero"}

C13_TempFileRemovedOnExit ==
    (scenario = "blast" /\ pc = "done") => ~temp_file.exists

\* The call raised out of the loop, after a query that timed out, and the file
\* it had created is gone.
C13_Witness ==
    /\ scenario = "blast"
    /\ pc = "done"
    /\ temp_file.created
    /\ ~temp_file.exists
    /\ processed.status = "OSError"
    /\ FailedInvocations # {}

\* C14 as claimed: on a table of contigs (with its name and sequence columns)
\* run_blastn issues exactly one invocation per input row, in input order,
\* one at a time, and none again.
C14_OneInvocationPerRow ==
    (scenario = "blast" /\ contigs_df.columns = <<"name", "sequence">>) =>
        /\ Cardinality(running) <= 1
        /\ \A k \in DOMAIN invocations : invocations[k].row = k
        /\ pc = "done" => Len(invocations) = Len(contigs_df.rows)

\* C14 as amended: run_blastn issues at most one invocation per input row, in
\* input order (the k-th invocation is for the k-th row), never starts one
\* before the previous one has ended, and invokes no query again; when it
\* returns a table it has issued exactly one invocation per input row.
C14_AtMostOneInvocationPerRow ==
    scenario = "blast" =>
        /\ Cardinality(running) <= 1
        /\ \A k \in DOMAIN invocations : invocations[k].row = k
        /\ Len(invocations) <= Len(contigs_df.rows)
        /\ \A k \in 1..(Len(invocations) - 1) : invocations[k].outcome # None
        /\ running = IF invocations # <<>>
                        /\ invocations[Len(invocations)].outcome = None
                     THEN {Len(invocations)} ELSE {}
        /\ (pc = "done" /\ processed.status = "ok") =>
               Len(invocations) = Len(contigs_df.rows)

\* The second query is running after the first one failed.
C14_Witness ==
    /\ scenario = "blast"
    /\ pc = "running"
    /\ Len(invocations) = 2
    /\ invocations[1].outcome.kind = "nonzero"
    /\ running = {2}

\* The positions of the tabs of a text, and the position of its k-th tab (0
\* for k = 0, past the end when the text has fewer).
TabsOf(text) == {j \in DOMAIN text : text[j] = "\t"}

NthTab(text, k) ==
    IF k = 0 THEN 0
    ELSE IF Cardinality(TabsOf(text)) < k THEN Len(text) + 1
    ELSE CHOOSE j \in TabsOf(text) :
             Cardinality({l \in TabsOf(text) : l < j}) = k - 1

\* The k-th tab-separated field of a text.
FieldOf(text, k) == SubSeq(text, NthTab(text, k - 1) + 1, NthTab(text, k) - 1)

\* The part of a field before its first newline.
BeforeNewline(field) ==
    LET ends == {j \in 1..(Len(field) + 1) :
                    (j = Len(field) + 1 \/ field[j] = "\n")
                    /\ \A l \in 1..(j - 1) : field[l] # "\n"}
    IN  SubSeq(field, 1, (CHOOSE j \in ends : TRUE) - 1)

\* text is what blastn printed for row r, without the whitespace around it.
IsMatchTextOf(text, r) ==
    LET out == invocations[r].outcome.stdout
    IN  \E a, b \in 0..Len(out) :
            /\ text = SubSeq(out, a + 1, Len(out) - b)
            /\ \A l \in 1..a : out[l] \in {" ", "\t", "\n"}
            /\ \A l \in (Len(out) - b + 1)..Len(out) : out[l] \in {" ", "\t", "\n"}
            /\ text # <<>> => /\ text[1] \notin {" ", "\t", "\n"}
                              /\ text[Len(text)] \notin {" ", "\t", "\n"}

\* The rows whose invocation printed a match.
RowsWithMatch ==
    {r \in DOMAIN invocations :
        /\ invocations[r].outcome.kind = "completed"
        /\ \E l \in DOMAIN invocations[r].outcome.stdout :
               invocations[r].outcome.stdout[l] \notin {" ", "\t", "\n"}}

HoldsDocument ==
    /\ scenario = "fastp"
    /\ pc = "done"
    /\ path.exists /\ path.is_file /\ Len(path.content) > 0
    /\ path.content[1].json

Document == path.content[1].value

\* The object under key in d, and the empty object when it is missing.
Section(d, key) == IF key \in DOMAIN d THEN d[key] ELSE EmptyDict

Before == Section(Section(Document, "summary"), "before_filtering")
After == Section(Section(Document, "summary"), "after_filtering")

\* The Value cell of the row whose Metric is metric.
ValueOf(metric) ==
    LET table == processed.df
    IN  table[CHOOSE i \in DOMAIN table : table[i].Metric = metric].Value

\* The numbers with one more decimal digit that are nearest to num / den.
Nearest(num, den) ==
    {t \in {num \div den, num \div den + 1} :
        /\ 2 * t * den - 2 * num <= den
        /\ 2 * num - 2 * t * den <= den}

\* t tenths, written with one decimal.
OneDecimal(t) == ToString(t \div 10) \o "." \o ToString(t % 10)

\* C16: extraction succeeds for every document that has a summary, one
\* whose before_filtering.total_reads is present and 0 included, the
\* percentages being taken of the pre-filter total.
C16_ExtractionNeverFails ==
    (HoldsDocument /\ "summary" \in DOMAIN Document)
        => processed.status = "ok"

C18_PassedAndTotalRendering ==
    (HoldsDocument /\ processed.status = "ok")
        => LET passed == Get(Section(Document, "filtering_result"),
                             "passed_filter_reads", 0)
               before == Get(Before, "total_reads", 1)
               total == Get(After, "total_reads", 0)
           IN  /\ before # 0
               /\ ValueOf("reads passed filters")
                    \in {OneDecimal(k) \o " K (" \o OneDecimal(pct) \o "%)" :
                           k \in Nearest(passed, 100),
                           pct \in Nearest(1000 * passed, before)}
               /\ ValueOf("total reads")
                    \in {OneDecimal(k) \o " K" : k \in Nearest(total, 100)}
               /\ (passed = 900 /\ before = 1000)
                    => ValueOf("reads passed filters") = "0.9 K (90.0%)"
               /\ total = 900 => ValueOf("total reads") = "0.9 K"

\* 900 of 1000 reads passed and 900 reads remain, rendered as the claim's
\* example says.
C18_Witness ==
    /\ HoldsDocument
    /\ processed.status = "ok"
    /\ "total_reads" \in DOMAIN Before /\ Before.total_reads = 1000
    /\ "total_reads" \in DOMAIN After /\ After.total_reads = 900
    /\ "filtering_result" \in DOMAIN Document
    /\ "passed_filter_reads" \in DOMAIN Document.filtering_result
    /\ Document.filtering_result.passed_filter_reads = 900
    /\ ValueOf("reads passed filters") = "0.9 K (90.0%)"
    /\ ValueOf("total reads") = "0.9 K"

(***************************************************************************)
(* Claims about the column count of a Kraken file (checked under           *)
(* SpecKraken).                                                            *)
(***************************************************************************)
\* A regular, non-empty file went through KrakenProcessor.process.
KrakenFileProcessed ==
    /\ scenario = "kraken"
    /\ pc = "done"
    /\ path.exists /\ path.is_file /\ Len(path.content) > 0

\* The lines of the file that do not have exactly six fields.
NotSixLines == {i \in DOMAIN path.content : Width(path.content[i]) # 6}

MissingOrNoFileOrEmpty ==
    \/ ~path.exists
    \/ ~path.is_file
    \/ Len(path.content) = 0

\* C19: for every processor, validate_input and process called on a path
\* that is missing, is no regular file or is an empty file raise
\* FileValidationError itself, not wrapped into DataProcessingError, and
\* return no table.
C19_BadPathIsFileValidationError ==
    (scenario = "validation" /\ MissingOrNoFileOrEmpty) =>
        /\ result # None => result = Raised("FileValidationError")
        /\ pc = "done" => processed = Raised("FileValidationError")

\* BlastProcessor was given an empty file: validate_input, then process,
\* both raised FileValidationError.
C19_Witness ==
    /\ scenario = "validation"
    /\ processor = "blast"
    /\ path = RegularFile(<<>>)
    /\ pc = "done"
    /\ result = Raised("FileValidationError")
    /\ processed = Raised("FileValidationError")

(***************************************************************************)
(* Claims about what KrakenProcessor._process_file leaves alone (checked   *)
(* under SpecKraken).                                                      *)
(***************************************************************************)
\* The value line j of the file gives for column, missing when the line
\* stops before it.
CellInFile(j, column) ==
    IF column \in DOMAIN path.content[j] THEN path.content[j][column]
    ELSE NaOf(column)

\* C28: _process_file changes only what the wrangling steps name: for every
\* row the values of count_clades, count, tax_lvl and taxonomy_id are the
\* row's own input values, a percent that is missing in the file is missing
\* in the table and one that is given is the given one divided by 100, a
\* name that is missing in the file is missing in the table and one that is
\* given is the given one stripped; nothing is copied from an earlier row.
C28_OnlyNamedStepsChangeRows ==
    (KrakenFileProcessed /\ processed.status = "ok") =>
        \A i \in DOMAIN processed.df :
            /\ \A c \in {"count_clades", "count", "tax_lvl", "taxonomy_id"} :
                   processed.df[i][c] = CellInFile(i, c)
            /\ IF CellInFile(i, "percent") = NaN
               THEN processed.df[i].percent = NaN
               ELSE processed.df[i].percent = CellInFile(i, "percent") \div 100
            /\ IF CellInFile(i, "name") = NA_str
               THEN processed.df[i].name = NA_str
               ELSE IsStripOf(processed.df[i].name, CellInFile(i, "name"))

FastaRecord(r) ==
    ">" \o contigs_df.rows[r].name \o "\n" \o contigs_df.rows[r].sequence \o "\n"

\* C29: at the moment of each external invocation the temporary query file
\* holds exactly the header and the sequence of the current input row, and
\* nothing left over from an earlier, possibly longer, query.
C29_QueryFileHoldsCurrentRowOnly ==
    scenario = "blast" =>
        /\ \A k \in DOMAIN invocations :
               invocations[k].query = FastaRecord(invocations[k].row)
        /\ pc = "running" => temp_file.content = FastaRecord(row)

\* The second query is running, it is shorter than the first one was, and
\* the file holds the second query alone.
C29_Witness ==
    /\ scenario = "blast"
    /\ pc = "running"
    /\ row = 2
    /\ Len(invocations) = 2
    /\ Len(invocations[1].query) > Len(FastaRecord(2))
    /\ temp_file.content = FastaRecord(2)

(***************************************************************************)
(* Claims about DefaultConfig (checked under SpecConfig).                  *)
(***************************************************************************)
\* The last DefaultConfig constructed, and its self.config.
LastConfig == configs[Len(configs)]
LastSelfConfig == ConfigOf(DEFAULT_CONFIG, LastConfig.instance)

\* C26: whatever DefaultConfig instances were constructed, with or without a
\* user config file, the class-level DEFAULT_CONFIG still is the built-in
\* defaults, and an instance constructed without a file holds them.
C26_DefaultsStayBuiltIn ==
    scenario = "config" =>
        /\ DEFAULT_CONFIG = BuiltInDefaults
        /\ (/\ Len(configs) > 0
            /\ LastConfig.status = "ok"
            /\ ~LastConfig.config_file.given)
           => LastSelfConfig = BuiltInDefaults

\* A value as the set of its leaves, each the path to a scalar and the scalar.
RECURSIVE LeavesOf(_)
LeavesOf(value) ==
    IF ~IsDict(value) THEN {<<(<<>>), value.scalar>>}
    ELSE UNION {{<<(<<k>>) \o leaf[1], leaf[2]>> : leaf \in LeavesOf(value.dict[k])}
                    : k \in DOMAIN value.dict}

\* One path is the start of the other.
IsPrefix(p, q) == Len(p) <= Len(q) /\ SubSeq(q, 1, Len(p)) = p
Overlap(p, q) == IsPrefix(p, q) \/ IsPrefix(q, p)

\* C22: a DefaultConfig that loaded a user config holds every value the user
\* gave, under its key, and every built-in default the user gave no value
\* for, also inside a section the user overrides in part; sections the
\* defaults do not know are present.
C22_LoadMergesRecursively ==
    (/\ scenario = "config"
     /\ Len(configs) > 0
     /\ LastConfig.status = "ok"
     /\ LastConfig.config_file.kind = "object")
    => LET given == LeavesOf(Dict(LastConfig.config_file.value))
           kept == {leaf \in LeavesOf(Dict(BuiltInDefaults)) :
                        \A g \in given : ~Overlap(g[1], leaf[1])}
       IN  LeavesOf(Dict(LastSelfConfig)) = given \cup kept

\* C23: DefaultConfig() and DefaultConfig(path where nothing is) raise
\* nothing and hold the built-in defaults for every key.
C23_NoFileGivesBuiltInDefaults ==
    (/\ scenario = "config"
     /\ Len(configs) > 0
     /\ ~(LastConfig.config_file.given /\ LastConfig.config_file.exists))
    => /\ LastConfig.status = "ok"
       /\ LastSelfConfig = BuiltInDefaults
       /\ LastSelfConfig.plotting.dict.width = Scalar("container")
       /\ LastSelfConfig.filtering.dict.kraken.dict.level = Scalar("species")

\* The components of the keys get is called with.
PathOf(key) ==
    CASE key = "plotting.width" -> <<"plotting", "width">>
      [] key = "plotting" -> <<"plotting">>
      [] key = "filtering.kraken.level" -> <<"filtering", "kraken", "level">>
      [] key = "nonexistent.key" -> <<"nonexistent", "key">>
      [] key = "plotting.width.inner" -> <<"plotting", "width", "inner">>
      [] key = "plotting.missing" -> <<"plotting", "missing">>
      [] key = "new_section.new_key" -> <<"new_section", "new_key">>
      [] key = "report.theme.name" -> <<"report", "theme", "name">>
      [] key = "" -> <<"">>

\* Every component of the path names a key of the mapping reached so far.
RECURSIVE HasPath(_, _)
HasPath(value, p) ==
    \/ p = <<>>
    \/ /\ IsDict(value)
       /\ Head(p) \in DOMAIN value.dict
       /\ HasPath(value.dict[Head(p)], Tail(p))

RECURSIVE ValueAt(_, _)
ValueAt(value, p) ==
    IF p = <<>> THEN value ELSE ValueAt(value.dict[Head(p)], Tail(p))

\* The self.config of the instance the last get or generate_section was
\* called on.
CalledConfig == Dict(ConfigOf(DEFAULT_CONFIG, configs[result.instance].instance))

\* C24: get(key, default) raises nothing; it returns the value at the dotted
\* path when every component exists, and the default (None when none was
\* supplied) when a component is missing or an intermediate value is no
\* mapping.
C24_GetReturnsValueOrDefault ==
    (scenario = "config" /\ pc = "got")
    => /\ result.status = "ok"
       /\ result.value = IF HasPath(CalledConfig, PathOf(result.key))
                         THEN ValueAt(CalledConfig, PathOf(result.key))
                         ELSE result.default

\* get of a key whose intermediate value is a string returned None.
C24_Witness ==
    /\ scenario = "config"
    /\ pc = "got"
    /\ result.key = "plotting.width.inner"
    /\ HasPath(CalledConfig, <<"plotting", "width">>)
    /\ ~IsDict(ValueAt(CalledConfig, <<"plotting", "width">>))
    /\ result.default = None
    /\ result.status = "ok"
    /\ result.value = None

\* The value the configuration holds at a path, None when it holds none.
Configured(p) ==
    IF HasPath(CalledConfig, p) THEN ValueAt(CalledConfig, p) ELSE None

\* C27: the raw-classification section passes the configured
\* filtering.kraken level, cutoff and max_entries and the configured
\* filtering.kaiju cutoff and max_entries to filter_data, and is generated
\* without error for a configuration without a user file.
C27_SectionFiltersWithConfiguredValues ==
    (scenario = "config" /\ pc = "section")
    => /\ ~configs[result.instance].config_file.given => result.status = "ok"
       /\ result.status = "ok" =>
            /\ Len(calls) = 3
            /\ calls[1].arguments.level = Configured(<<"filtering", "kraken", "level">>)
            /\ \A n \in {1, 2} :
                /\ calls[n].arguments.cutoff
                        = Configured(<<"filtering", "kraken", "cutoff">>)
                /\ calls[n].arguments.max_entries
                        = Configured(<<"filtering", "kraken", "max_entries">>)
            /\ calls[3].arguments.cutoff
                    = Configured(<<"filtering", "kaiju", "cutoff">>)
            /\ calls[3].arguments.max_entries
                    = Configured(<<"filtering", "kaiju", "max_entries">>)

(***************************************************************************)
(* Claims about generate_report (checked under SpecReport).                *)
(***************************************************************************)
\* The sections whose generate_section raises for the arguments.
FailingSections ==
    {n \in 1..Len(SectionOrder) :
        SectionOutcome(SectionOrder[n], arguments) # "ok"}

\* The sections before the first that raises: all four when none does.
BeforeFirstFailure ==
    IF FailingSections = {} THEN SectionOrder
    ELSE SubSeq(SectionOrder, 1,
                (CHOOSE n \in FailingSections :
                    \A k \in FailingSections : n <= k) - 1)

\* C21: the sections are generated in the order alignment, raw
\* classification, contig classification, coverage; once a section fails no
\* later section is generated, no report is returned and the caller gets a
\* ReportGenerationError; a report is returned only with all four sections.
C21_SectionsInOrderFailureEndsReport ==
    scenario = "report" =>
        /\ \E n \in 0..Len(SectionOrder) : generated = SubSeq(SectionOrder, 1, n)
        /\ Len(generated) <= Len(BeforeFirstFailure)
        /\ pc = "done" =>
            /\ generated = BeforeFirstFailure
            /\ IF FailingSections = {}
               THEN result.status = "ok" /\ result.report = SectionOrder
               ELSE /\ result.status = "ReportGenerationError"
                    /\ "report" \notin DOMAIN result

\* The contig classification section failed after two sections were
\* generated, the coverage section would have succeeded.
C21_Witness ==
    /\ scenario = "report"
    /\ pc = "done"
    /\ generated = <<"alignment", "raw_classification">>
    /\ result.status = "ReportGenerationError"
    /\ result.section = "contig_classification"
    /\ SectionOutcome("coverage", arguments) = "ok"

(***************************************************************************)
(* Claims about VisualizationConfig (checked under SpecVisualization).     *)
(***************************************************************************)
\* C30: for a VisualizationConfig c, c.to_dict() succeeds,
\* from_dict(c.to_dict()) succeeds and equals c, and its to_dict() succeeds
\* with the same dict; a configuration made by create_custom_preset with
\* non-empty overrides can be converted with to_dict() and saved with
\* save_config.
C30_ConfigRoundTrips ==
    scenario = "visualization" =>
        /\ pc \in {"dict", "restored", "again"} => config_dict.status = "ok"
        /\ pc \in {"restored", "again"} =>
            /\ restored.status = "ok"
            /\ restored.value = config.value
        /\ pc = "again" =>
            /\ result.status = "ok"
            /\ result.value = config_dict.value
        /\ (/\ pc \in {"config", "dict", "restored", "again"}
            /\ config.overrides # EmptyDict
            /\ "status" \in DOMAIN result2)
           => result2.status = "ok"

====
